---- MODULE Spec2Model ----
(***************************************************************************)
(* move-nested-files (mnf): the concurrent pipeline of src/src/mnf.c.      *)
(* One producer (the directory walker, running on the main thread) pushes  *)
(* relocation jobs on a FIFO queue; N worker threads pop them, derive a    *)
(* target in the destination directory according to the collision mode     *)
(* and relocate the file.  Paths and names are sequences of characters, as *)
(* in the C code, so that path_join, basename_const, split_name, is_under  *)
(* and unique_path are modelled by what they do on strings.                *)
(***************************************************************************)
EXTENDS Integers, Sequences, FiniteSets, TLC

VARIABLES
    opt,        \* options_t built by parse_options (read-only afterwards)
    fs,         \* the filesystem: existing path |-> entry
    mainpc,     \* position of main()
    wstack,     \* call stack of traverse_and_queue (one frame per open DIR*)
    q,          \* the job queue: [items, done]
    name_mx,    \* holder of name_mx (0 = unlocked)
    wpc,        \* position of each worker_main
    job,        \* job_t j of each worker
    target,     \* char target[PATH_MAX] of each worker
    nsuf,       \* int n of unique_path of each worker
    flags,      \* [skip, overwrite] locals of each worker
    rc,         \* int rc of each worker
    outfd,      \* inode behind the descriptor "out" of copy_file_rw, per worker
    xdev,       \* the destination lies on another device than the source
    fault,      \* the system call that fails on FaultSrc during this run
    fs0,        \* history: the filesystem before the run
    stats_mx,   \* holder of stats.mx (0 = unlocked)
    reg,        \* the counter value a worker has loaded inside add_*
    total,      \* "total" of copy_file_rw of each worker: bytes written
    stats,      \* the statistics counters
    pushed,     \* history: every job handed to push_job, in order
    popped,     \* history: every job returned by pop_job, in order
    allocs,     \* history: (job source, path) pairs returned by unique_path
    exitStatus  \* value returned by main (-1 while running)

vars == <<opt, fs, mainpc, wstack, q, name_mx, wpc, job, target, nsuf, flags,
          rc, outfd, xdev, fault, fs0, stats_mx, reg, total, stats, pushed,
          popped, allocs, exitStatus>>

----------------------------------------------------------------------------
(* Bounds of the model *)

MaxThreads == 2        \* --threads N ranges over 1..MaxThreads
MaxMinDepth == 2       \* --min-depth N ranges over 0..MaxMinDepth
MaxMaxDepth == 1       \* --max-depth N ranges over -1..MaxMaxDepth
MaxTaken == 2          \* the allocator finds up to the name and MaxTaken candidates taken
MaxSize == 3           \* the candidate of the filters has 1..MaxSize bytes
MaxTime == 3           \* and a modification time in 1..MaxTime
PATH_MAX == 12         \* size of the path buffers, scaled to the names below

----------------------------------------------------------------------------
(* Strings *)

MODE_RENAME == 0
MODE_SKIP == 1
MODE_OVERWRITE == 2

EXIT_SUCCESS == 0
EXIT_FAILURE == 1

IsPrefix(p, s) == Len(p) <= Len(s) /\ SubSeq(s, 1, Len(p)) = p

\* strrchr(s, c): index of the last c in s, 0 when there is none
strrchr(s, c) ==
    LET I == {i \in 1..Len(s) : s[i] = c}
    IN  IF I = {} THEN 0 ELSE CHOOSE i \in I : \A j \in I : j <= i

path_join(a, b) == a \o <<"/">> \o b
\* path_join calls die when the joined path and its NUL do not fit dstsz
TooLong(a, b, dstsz) == Len(a) + 1 + Len(b) + 1 > dstsz

basename_const(path) == SubSeq(path, strrchr(path, "/") + 1, Len(path))

Digit == <<"0", "1", "2", "3", "4", "5", "6", "7", "8", "9">>

\* snprintf(num, sizeof(num), "%d", n) for n >= 0
RECURSIVE itoa(_)
itoa(n) == IF n < 10 THEN <<Digit[n + 1]>>
           ELSE itoa(n \div 10) \o <<Digit[(n % 10) + 1]>>

\* ext_of: the text after the last dot, <<>> standing for NULL; a name whose
\* only dot is its first character has no extension.  (The empty extension
\* of a name ending in a dot is <<>> too: the extension lists hold no empty
\* entry, split_csv drops them, so it is treated as NULL is.)
NoExt == <<>>
ext_of(name) ==
    LET dot == strrchr(name, ".")
    IN  IF dot = 0 \/ dot = 1 THEN NoExt ELSE SubSeq(name, dot + 1, Len(name))

\* a split at the first dot instead of the last
split_name_FirstDot(name) ==
    LET D   == {i \in 1..Len(name) : name[i] = "."}
        dot == IF D = {} THEN 0 ELSE CHOOSE i \in D : \A j \in D : i <= j
    IN  IF dot = 0 \/ dot = 1
          THEN [base |-> name, ext |-> <<>>]
        ELSE [base |-> SubSeq(name, 1, dot - 1),
              ext  |-> SubSeq(name, dot, Len(name))]

split_name(name) ==
    LET dot == strrchr(name, ".")
    IN  IF name[1] = "." /\ (dot = 0 \/ dot = 1)
          THEN [base |-> name, ext |-> <<>>]
        ELSE IF dot # 0 /\ dot # 1
          THEN [base |-> SubSeq(name, 1, dot - 1),
                ext  |-> SubSeq(name, dot, Len(name))]
        ELSE [base |-> name, ext |-> <<>>]

\* the candidate unique_path builds in round n of its loop: dest/base_N.ext
Candidate(dest_dir, name, n) ==
    dest_dir \o <<"/">> \o split_name(name).base \o <<"_">> \o itoa(n)
             \o split_name(name).ext

is_under(path, prefix) ==
    LET n == Len(prefix)
    IN  /\ IsPrefix(prefix, path)
        /\ (Len(path) = n \/ path[n + 1] = "/")

----------------------------------------------------------------------------
(* The filesystem *)

Exists(f, p) == p \in DOMAIN f                      \* access(p, F_OK) == 0

IsDir(f, p)  == Exists(f, p) /\ f[p].kind = "dir"

\* the entries readdir can return for dir: the paths directly below it
Children(f, dir) ==
    {p \in DOMAIN f :
        /\ Len(p) > Len(dir) + 1
        /\ IsPrefix(dir \o <<"/">>, p)
        /\ \A i \in (Len(dir) + 2)..Len(p) : p[i] # "/"}

Remove(f, p) == [x \in DOMAIN f \ {p} |-> f[x]]

Put(f, p, e) == [x \in DOMAIN f \cup {p} |-> IF x = p THEN e ELSE f[x]]

\* unlink(p): removes a file or a symbolic link, fails on anything else
CanUnlink(f, p) == Exists(f, p) /\ f[p].kind # "dir"
Unlinked(f, p) == IF CanUnlink(f, p) THEN Remove(f, p) ELSE f

\* rename(src, dst) of a non-directory: replaces dst atomically
CanRename(f, src, dst) == Exists(f, src) /\ ~IsDir(f, dst)
Renamed(f, src, dst) == Put(Remove(f, src), dst, f[src])

\* realpath(p): every path the program builds starts from a canonical root
\* and descends through entries lstat reported as directories, so the
\* canonical path of an existing path is the path itself
CanResolve(f, p) == Exists(f, p)
realpath(f, p) == p

\* an entry: its kind, its inode, its bytes and its modification time
Dir(i) == [kind |-> "dir", ino |-> i, data |-> <<>>, mtime |-> 0]
File(i, bytes, mt) == [kind |-> "file", ino |-> i, data |-> bytes, mtime |-> mt]

\* st_size of a regular file
Size(e) == Len(e.data)

\* open(dst, O_WRONLY | O_CREAT | O_TRUNC): an existing file is emptied and
\* keeps its inode, a missing one is created with inode i
CanCreate(f, p) == ~IsDir(f, p)
Created(f, p, i) ==
    IF Exists(f, p) THEN [f EXCEPT ![p].data = <<>>]
    ELSE Put(f, p, File(i, <<>>, 0))

\* write(fd, buf, n) at offset 0 of a fresh descriptor: the first n bytes of
\* the file are replaced, bytes written there through another descriptor
\* beyond n stay
Overlay(old, bytes) == bytes \o SubSeq(old, Len(bytes) + 1, Len(old))

\* the effect of the write on the file with inode i; when the inode has been
\* unlinked in the meantime no path shows the bytes
Written(f, i, bytes, mt) ==
    [p \in DOMAIN f |->
        IF f[p].kind = "file" /\ f[p].ino = i
          THEN [f[p] EXCEPT !.data = Overlay(@, bytes), !.mtime = mt]
          ELSE f[p]]

SRC == <<"/", "s">>
DirX == path_join(SRC, <<"x">>)
DirY == path_join(DirX, <<"y">>)
NameF == <<"f", ".", "t">>
NameP == <<"p", ".", "t">>

\* the source tree: s/f.t (depth 0), s/x/p.t (depth 1), s/x/y/p.t (depth 2)
SourceTree ==
    (SRC :> Dir(SRC)) @@ (DirX :> Dir(DirX)) @@ (DirY :> Dir(DirY))
    @@ (path_join(SRC, NameF)  :> File(path_join(SRC, NameF), <<"f">>, 1))
    @@ (path_join(DirX, NameP) :> File(path_join(DirX, NameP), <<"a", "b">>, 2))
    @@ (path_join(DirY, NameP) :> File(path_join(DirY, NameP), <<"c", "d", "e">>, 3))

SourceFiles == {p \in DOMAIN SourceTree : SourceTree[p].kind # "dir"}

\* a symbolic link s/x/l to f.t, and a file s/x/y/qqq.t whose path does not
\* fit PATH_MAX
Link(i, text, mt) == [kind |-> "link", ino |-> i, data |-> text, mtime |-> mt]
NameL == <<"l">>
NameQ == <<"q", "q", "q", ".", "t">>
TreeKinds == {"plain", "link", "long"}
ExtraEntries(tk) ==
    IF tk = "link"
      THEN path_join(DirX, NameL) :> Link(path_join(DirX, NameL), NameF, 5)
    ELSE IF tk = "long"
      THEN path_join(DirY, NameQ) :> File(path_join(DirY, NameQ), <<"g">>, 6)
    ELSE <<>>

\* the system call that fails during the run, with an error other than
\* EXDEV, whenever it is made for the job of FaultSrc (a regular file) or of
\* the symbolic link; "access" is the write permission test of main
Faults == {"none", "access", "rename", "open", "write", "unlink", "symlink"}
FaultSrc == path_join(DirX, NameP)
Fails(call, src) ==
    /\ fault = call
    /\ src \in {FaultSrc, path_join(DirX, NameL)}

DstOutside == <<"/", "d">>
DstNested == path_join(SRC, <<"d">>)

\* the destination before the run: absent, an empty directory, or a
\* directory that already holds an entry named p.t
DstStates == {"absent", "empty", "holds"}
OldBytes == <<"w", "x", "y", "z">>
InitialFs(dst, ds) ==
    IF ds = "absent" THEN SourceTree
    ELSE IF ds = "empty" THEN SourceTree @@ (dst :> Dir(dst))
    ELSE SourceTree @@ (dst :> Dir(dst))
         @@ (path_join(dst, NameP) :> File(path_join(dst, NameP), OldBytes, 4))

----------------------------------------------------------------------------
(* Options *)

\* the fields of options_t parse_options sets from the core and depth options
BaseOptions ==
    [src : {SRC}, dst : {DstOutside, DstNested},
     threads : 1..MaxThreads,
     mode : {MODE_RENAME, MODE_SKIP, MODE_OVERWRITE},
     min_depth : 0..MaxMinDepth,
     max_depth : (-1)..MaxMaxDepth,
     dry_run : BOOLEAN,
     preserve_times : {TRUE},
     include_symlinks : BOOLEAN,
     prune_empty_dirs : BOOLEAN]

\* the filter fields of options_t after memset: no filter is configured
NoFilter ==
    [includes |-> <<>>, excludes |-> <<>>, allow_ext |-> <<>>, deny_ext |-> <<>>,
     has_min_size |-> FALSE, min_size |-> 0,
     has_max_size |-> FALSE, max_size |-> 0,
     has_newer |-> FALSE, newer_than |-> 0,
     has_older |-> FALSE, older_than |-> 0]

\* one policy for each filter option
FilterPolicies ==
    {NoFilter,
     [NoFilter EXCEPT !.includes = << <<"X", "/", "*">> >>],
     [NoFilter EXCEPT !.excludes = << <<"*", "/", "?", ".", "t">> >>],
     [NoFilter EXCEPT !.allow_ext = << <<"u">>, <<"T">> >>],
     [NoFilter EXCEPT !.deny_ext = << <<"t">> >>],
     [NoFilter EXCEPT !.has_min_size = TRUE, !.min_size = 2],
     [NoFilter EXCEPT !.has_max_size = TRUE, !.max_size = 2],
     [NoFilter EXCEPT !.has_newer = TRUE, !.newer_than = 2],
     [NoFilter EXCEPT !.has_older = TRUE, !.older_than = 2]}

Options == {b @@ fp : b \in BaseOptions, fp \in FilterPolicies}

FilterOf(o) == [k \in DOMAIN NoFilter |-> o[k]]

\* The runs explored, o the options and x the device flag.  The filters and
\* the depth bounds are applied by the walker alone and the collision mode
\* by the workers alone: a filter policy, a maximum depth and the largest
\* minimum depth are explored in rename mode on one device, the filter
\* policies with one worker and neither of the options that act after the
\* walk, and several workers are explored without a maximum depth and with
\* a minimum depth that leaves them two or three jobs (two when they copy,
\* in a dry run and with the destination inside the source tree).
\* Another device is one mounted outside the source tree, and it is read by
\* the relocation alone, which a dry run never reaches.  The pruner runs
\* after the workers have been joined, so it is explored with one worker.
Scenario(o, x) ==
    /\ FilterOf(o) # NoFilter =>
           /\ o.threads = 1 /\ ~o.dry_run /\ ~o.prune_empty_dirs
           /\ o.dst = DstOutside
    /\ (FilterOf(o) # NoFilter \/ o.max_depth # -1 \/ o.min_depth = MaxMinDepth) =>
           ~x /\ o.mode = MODE_RENAME
    /\ x => ~o.dry_run /\ o.dst = DstOutside
    /\ o.threads > 1 =>
           /\ o.max_depth = -1 /\ o.min_depth <= 1 /\ ~o.prune_empty_dirs
           /\ (x \/ o.dry_run \/ o.dst = DstNested) => o.min_depth = 1

\* The trees and faults explored, tk the kind of tree, ft the fault and ds
\* the state of the destination.  The symbolic link is moved in the default
\* depth range, without filters, to a destination outside the source tree
\* on the same device, and is left alone by a run without
\* --include-symlinks in rename mode with one worker.  The overlong path
\* is explored in rename mode on one device with an existing empty
\* destination, under every depth range that starts at the default.  A
\* fault is explored in the default depth range, without filters, with a
\* destination outside the source tree that exists, and with one worker
\* unless it is the rename that fails.
TreeScenario(o, x, tk, ft, ds) ==
    /\ o.include_symlinks => tk = "link"
    /\ tk = "link" =>
           /\ FilterOf(o) = NoFilter /\ o.min_depth = 1 /\ o.max_depth = -1
           /\ o.dst = DstOutside /\ ~o.prune_empty_dirs /\ ~x
           /\ ~o.include_symlinks =>
                  o.threads = 1 /\ o.mode = MODE_RENAME /\ ~o.dry_run
           /\ o.threads > 1 => ds = "empty" /\ ~o.dry_run
    /\ tk = "long" =>
           /\ FilterOf(o) = NoFilter /\ o.min_depth = 1
           /\ o.dst = DstOutside /\ ds = "empty" /\ ~o.dry_run
           /\ o.mode = MODE_RENAME /\ ~x
           /\ ft = "none"
    /\ ft # "none" =>
           /\ FilterOf(o) = NoFilter /\ o.min_depth = 1 /\ o.max_depth = -1
           /\ o.dst = DstOutside /\ ds # "absent"
           /\ ~o.prune_empty_dirs
           /\ ft # "rename" => o.threads = 1
           /\ ft # "access" => ~o.dry_run
           /\ ft \in {"open", "write", "unlink"} => x /\ tk = "plain"
           /\ ft \in {"rename", "access"} => ~x /\ tk = "plain"
           /\ ft = "symlink" => o.include_symlinks

SRC_CANON == realpath(fs, opt.src)
DST_CANON == realpath(fs, opt.dst)

Workers == 1..MaxThreads
nth == IF opt.threads > 0 THEN opt.threads ELSE 1

NoJob == [src_path |-> <<>>, rel_path |-> <<>>, depth |-> 0, is_symlink |-> FALSE]
NoFlags == [skip |-> FALSE, overwrite |-> FALSE]
NoReg == -1         \* the worker is not inside add_moved, add_skipped, ...

----------------------------------------------------------------------------
(* Filters *)

UpperCase == <<"A", "B", "C", "D", "E", "F", "G", "H", "I", "J", "K", "L", "M",
               "N", "O", "P", "Q", "R", "S", "T", "U", "V", "W", "X", "Y", "Z">>
LowerCase == <<"a", "b", "c", "d", "e", "f", "g", "h", "i", "j", "k", "l", "m",
               "n", "o", "p", "q", "r", "s", "t", "u", "v", "w", "x", "y", "z">>
tolower(c) ==
    IF \E i \in 1..26 : UpperCase[i] = c
      THEN LowerCase[CHOOSE i \in 1..26 : UpperCase[i] = c]
      ELSE c

list_contains_ci(list, needle) ==
    /\ needle # NoExt
    /\ \E i \in 1..Len(list) :
          /\ Len(list[i]) = Len(needle)
          /\ \A j \in 1..Len(needle) : tolower(list[i][j]) = tolower(needle[j])

\* fnmatch(pat, str, FNM_PATHNAME | FNM_PERIOD | FNM_CASEFOLD) == 0 for
\* patterns made of characters, "?" and "*"; lead says that str starts a
\* path component, where a period is matched by a period alone
RECURSIVE fnmatch(_, _, _)
fnmatch(pat, str, lead) ==
    IF pat = <<>> THEN str = <<>>
    ELSE IF Head(pat) = "*"
      THEN /\ ~(str # <<>> /\ Head(str) = "." /\ lead)
           /\ \/ fnmatch(Tail(pat), str, lead)
              \/ /\ str # <<>>
                 /\ Head(str) # "/"
                 /\ fnmatch(pat, Tail(str), FALSE)
    ELSE IF Head(pat) = "?"
      THEN /\ str # <<>>
           /\ Head(str) # "/"
           /\ ~(Head(str) = "." /\ lead)
           /\ fnmatch(Tail(pat), Tail(str), FALSE)
    ELSE /\ str # <<>>
         /\ tolower(Head(pat)) = tolower(Head(str))
         /\ fnmatch(Tail(pat), Tail(str), Head(str) = "/")

match_any_glob(rel, globs) ==
    \/ Len(globs) = 0
    \/ \E i \in 1..Len(globs) : fnmatch(globs[i], rel, TRUE)

match_any_exclude(rel, globs) ==
    /\ Len(globs) # 0
    /\ \E i \in 1..Len(globs) : fnmatch(globs[i], rel, TRUE)

\* a filter whose allow list is compared with the case of the name kept
file_passes_filters_CaseKept(o, rel, st, name) ==
    LET ext == ext_of(name)
    IN  /\ ~(Len(o.includes) > 0 /\ ~match_any_glob(rel, o.includes))
        /\ ~match_any_exclude(rel, o.excludes)
        /\ ~(Len(o.allow_ext) > 0
               /\ (ext = NoExt \/ \A i \in 1..Len(o.allow_ext) : o.allow_ext[i] # ext))
        /\ ~(ext # NoExt /\ Len(o.deny_ext) > 0 /\ list_contains_ci(o.deny_ext, ext))
        /\ ~(o.has_min_size /\ Size(st) < o.min_size)
        /\ ~(o.has_max_size /\ Size(st) > o.max_size)
        /\ ~(o.has_newer /\ st.mtime < o.newer_than)
        /\ ~(o.has_older /\ st.mtime > o.older_than)

file_passes_filters(o, rel, st, name) ==
    LET ext == ext_of(name)
    IN  /\ ~(Len(o.includes) > 0 /\ ~match_any_glob(rel, o.includes))
        /\ ~match_any_exclude(rel, o.excludes)
        /\ ~(Len(o.allow_ext) > 0
               /\ (ext = NoExt \/ ~list_contains_ci(o.allow_ext, ext)))
        /\ ~(ext # NoExt /\ Len(o.deny_ext) > 0 /\ list_contains_ci(o.deny_ext, ext))
        /\ ~(o.has_min_size /\ Size(st) < o.min_size)
        /\ ~(o.has_max_size /\ Size(st) > o.max_size)
        /\ ~(o.has_newer /\ st.mtime < o.newer_than)
        /\ ~(o.has_older /\ st.mtime > o.older_than)

----------------------------------------------------------------------------
(* Initial state: main() has parsed its options *)

Init ==
    /\ opt \in Options
    /\ xdev \in BOOLEAN
    /\ Scenario(opt, xdev)
    /\ fault \in Faults
    /\ \E ds \in DstStates, tk \in TreeKinds :
          /\ TreeScenario(opt, xdev, tk, fault, ds)
          /\ fs = InitialFs(opt.dst, ds) @@ ExtraEntries(tk)
    /\ fs0 = fs
    /\ stats_mx = 0
    /\ reg = [w \in Workers |-> NoReg]
    /\ total = [w \in Workers |-> 0]
    /\ mainpc = "start"
    /\ wstack = <<>>
    /\ q = [items |-> <<>>, done |-> FALSE]
    /\ name_mx = 0
    /\ wpc = [w \in Workers |-> "unborn"]
    /\ job = [w \in Workers |-> NoJob]
    /\ target = [w \in Workers |-> <<>>]
    /\ nsuf = [w \in Workers |-> 0]
    /\ flags = [w \in Workers |-> NoFlags]
    /\ rc = [w \in Workers |-> 0]
    /\ outfd = [w \in Workers |-> <<>>]
    /\ stats = [moved |-> 0, skipped |-> 0, failed |-> 0, bytes_copied |-> 0]
    /\ pushed = <<>>
    /\ popped = <<>>
    /\ allocs = {}
    /\ exitStatus = -1

----------------------------------------------------------------------------
(* Job queue *)

Waiters == {w \in Workers : wpc[w] = "wait"}

\* pthread_cond_signal: the positions of the workers after one waiter, if
\* there is any, has been woken (it re-runs the loop of pop_job)
Signalled(pcs) ==
    IF Waiters = {} THEN {pcs}
    ELSE {[pcs EXCEPT ![w] = "pop"] : w \in Waiters}

\* a broadcast that wakes nobody
Broadcast_Lost(pcs) == pcs

\* pthread_cond_broadcast: every waiter is woken
Broadcast(pcs) == [w \in Workers |-> IF pcs[w] = "wait" THEN "pop" ELSE pcs[w]]

\* the list after push_job has linked the node at the tail
Pushed(items, j) == Append(items, j)

\* a pop that returns the tail node of the list
PopFront_Last(items) == items[Len(items)]

\* the node pop_job unlinks, and the list it leaves
PopFront(items) == Head(items)
PopRest(items) == Tail(items)

push_job(j) ==
    /\ q' = [q EXCEPT !.items = Pushed(q.items, j)]
    /\ wpc' \in Signalled(wpc)
    /\ pushed' = Append(pushed, j)

\* pop_job, a job is queued: unlink the head and return it
PopTake(w) ==
    /\ wpc[w] = "pop"
    /\ q.items # <<>>
    /\ job' = [job EXCEPT ![w] = PopFront(q.items)]
    /\ q' = [q EXCEPT !.items = PopRest(q.items)]
    /\ popped' = Append(popped, PopFront(q.items))
    /\ wpc' = [wpc EXCEPT ![w] = "target"]
    /\ UNCHANGED <<opt, xdev, fault, fs0, stats_mx, reg, total, outfd, fs, mainpc, wstack, name_mx, target, nsuf,
                   flags, rc, stats, pushed, allocs, exitStatus>>

\* a pop that returns false on an empty list without looking at done
PopEnd_NoDone(w) ==
    /\ wpc[w] = "pop"
    /\ q.items = <<>>
    /\ wpc' = [wpc EXCEPT ![w] = "exit"]
    /\ UNCHANGED <<opt, xdev, fault, fs0, stats_mx, reg, total, outfd, fs, mainpc, wstack, q, name_mx, job, target, nsuf,
                   flags, rc, stats, pushed, popped, allocs, exitStatus>>

\* pop_job, the queue is empty and done is set: return false, the worker ends
PopEnd(w) ==
    /\ wpc[w] = "pop"
    /\ q.items = <<>>
    /\ q.done
    /\ wpc' = [wpc EXCEPT ![w] = "exit"]
    /\ UNCHANGED <<opt, xdev, fault, fs0, stats_mx, reg, total, outfd, fs, mainpc, wstack, q, name_mx, job, target, nsuf,
                   flags, rc, stats, pushed, popped, allocs, exitStatus>>

\* pop_job, the queue is empty and done is not set: pthread_cond_wait
PopWait(w) ==
    /\ wpc[w] = "pop"
    /\ q.items = <<>>
    /\ ~q.done
    /\ wpc' = [wpc EXCEPT ![w] = "wait"]
    /\ UNCHANGED <<opt, xdev, fault, fs0, stats_mx, reg, total, outfd, fs, mainpc, wstack, q, name_mx, job, target, nsuf,
                   flags, rc, stats, pushed, popped, allocs, exitStatus>>

\* pthread_cond_wait may return without a signal
SpuriousWake(w) ==
    /\ wpc[w] = "wait"
    /\ wpc' = [wpc EXCEPT ![w] = "pop"]
    /\ UNCHANGED <<opt, xdev, fault, fs0, stats_mx, reg, total, outfd, fs, mainpc, wstack, q, name_mx, job, target, nsuf,
                   flags, rc, stats, pushed, popped, allocs, exitStatus>>

----------------------------------------------------------------------------
(* main: startup, worker creation, traversal, shutdown *)

\* die: the message is printed and exit(EXIT_FAILURE) ends every thread
Dying ==
    /\ mainpc' = "dead"
    /\ wpc' = [w \in Workers |-> IF wpc[w] = "unborn" THEN "unborn" ELSE "killed"]
    /\ exitStatus' = EXIT_FAILURE

die ==
    /\ Dying
    /\ UNCHANGED <<opt, xdev, fault, fs0, stats_mx, reg, total, outfd, fs, wstack, q,
                   name_mx, job, target, nsuf, flags, rc, stats, pushed, popped,
                   allocs>>

\* main, lines 655-658: the destination is created when it does not exist,
\* and a destination that cannot be written is fatal unless the run is dry
Startup ==
    /\ mainpc = "start"
    /\ fs' = IF Exists(fs, opt.dst) THEN fs ELSE Put(fs, opt.dst, Dir(opt.dst))
    /\ IF fault = "access" /\ ~opt.dry_run
         THEN Dying
         ELSE mainpc' = "spawn" /\ UNCHANGED <<wpc, exitStatus>>
    /\ UNCHANGED <<opt, xdev, fault, fs0, stats_mx, reg, total, outfd, wstack, q,
                   name_mx, job, target, nsuf, flags, rc, stats, pushed, popped,
                   allocs>>

Unborn == {w \in 1..nth : wpc[w] = "unborn"}

\* one round of the pthread_create loop
SpawnWorker ==
    /\ mainpc = "spawn"
    /\ Unborn # {}
    /\ LET i == CHOOSE w \in Unborn : \A v \in Unborn : w <= v
       IN  wpc' = [wpc EXCEPT ![i] = "pop"]
    /\ UNCHANGED <<opt, xdev, fault, fs0, stats_mx, reg, total, outfd, fs, mainpc, wstack, q, name_mx, job, target, nsuf,
                   flags, rc, stats, pushed, popped, allocs, exitStatus>>

Frame(dir, depth, rel) == [dir |-> dir, depth |-> depth, rel |-> rel, seen |-> {}]

\* traverse_and_queue(&opt, SRC_CANON, 0, "")
BeginWalk ==
    /\ mainpc = "spawn"
    /\ Unborn = {}
    /\ mainpc' = "walk"
    /\ wstack' = <<Frame(SRC_CANON, 0, <<>>)>>
    /\ UNCHANGED <<opt, xdev, fault, fs0, stats_mx, reg, total, outfd, fs, q, name_mx, wpc, job, target, nsuf, flags, rc,
                   stats, pushed, popped, allocs, exitStatus>>

\* ShouldEnqueue without the minimum depth test
ShouldEnqueue_NoMinDepth(o, depth, rel, st, name) ==
    /\ ~(o.max_depth >= 0 /\ depth > o.max_depth)
    /\ file_passes_filters(o, rel, st, name)

\* the depth and filter tests of a regular file or a symbolic link
ShouldEnqueue(o, depth, rel, st, name) ==
    /\ ~(o.max_depth >= 0 /\ depth > o.max_depth)
    /\ depth >= o.min_depth
    /\ file_passes_filters(o, rel, st, name)

\* ShouldRecurse without the comparison against the destination root
ShouldRecurse_IntoDst(o, f, path, depth) ==
    /\ CanResolve(f, path)
    /\ ~(o.max_depth >= 0 /\ depth >= o.max_depth)

\* ShouldRecurse with the maximum depth tested as for files
ShouldRecurse_Deeper(o, f, path, depth) ==
    /\ CanResolve(f, path)
    /\ ~is_under(realpath(f, path), DST_CANON)
    /\ ~(o.max_depth >= 0 /\ depth > o.max_depth)

\* the destination and depth tests of a directory
ShouldRecurse(o, f, path, depth) ==
    /\ CanResolve(f, path)
    /\ ~is_under(realpath(f, path), DST_CANON)
    /\ ~(o.max_depth >= 0 /\ depth >= o.max_depth)

\* one round of the readdir loop of the innermost traverse_and_queue; the
\* two paths of the entry are built first, and die ends the run when one of
\* them does not fit
WalkEntry ==
    /\ mainpc = "walk"
    /\ wstack # <<>>
    /\ LET k  == Len(wstack)
           fr == wstack[k]
       IN \E path \in Children(fs, fr.dir) :
          LET name == basename_const(path)
              rel  == IF fr.rel # <<>> THEN path_join(fr.rel, name) ELSE name
              st   == fs[path]
              here == [wstack EXCEPT ![k].seen = @ \cup {name}]
              j    == [src_path |-> path, rel_path |-> rel, depth |-> fr.depth,
                       is_symlink |-> st.kind = "link"]
          IN  /\ name \notin fr.seen
              /\ IF \/ TooLong(fr.dir, name, PATH_MAX)
                    \/ fr.rel # <<>> /\ TooLong(fr.rel, name, PATH_MAX)
                    \/ fr.rel = <<>> /\ Len(name) + 1 > PATH_MAX
                   THEN /\ Dying
                        /\ UNCHANGED <<wstack, q, pushed>>
                   ELSE /\ UNCHANGED <<mainpc, exitStatus>>
                        /\ IF st.kind = "dir"
                             THEN /\ wstack' =
                                        IF ShouldRecurse(opt, fs, path, fr.depth)
                                          THEN Append(here, Frame(path, fr.depth + 1, rel))
                                          ELSE here
                                  /\ UNCHANGED <<q, wpc, pushed>>
                             ELSE /\ wstack' = here
                                  /\ IF /\ st.kind = "link" => opt.include_symlinks
                                        /\ ShouldEnqueue(opt, fr.depth, rel, st, name)
                                       THEN push_job(j)
                                       ELSE UNCHANGED <<q, wpc, pushed>>
    /\ UNCHANGED <<opt, xdev, fault, fs0, stats_mx, reg, total, outfd, fs, name_mx, job,
                   target, nsuf, flags, rc, stats, popped, allocs>>

\* a return that hands over to finish_jobs from any level of the recursion
WalkReturn_Early ==
    /\ mainpc = "walk"
    /\ wstack # <<>>
    /\ LET fr == wstack[Len(wstack)]
       IN  \A path \in Children(fs, fr.dir) : basename_const(path) \in fr.seen
    /\ wstack' = SubSeq(wstack, 1, Len(wstack) - 1)
    /\ mainpc' = "finish"
    /\ UNCHANGED <<opt, xdev, fault, fs0, stats_mx, reg, total, outfd, fs, q, name_mx, wpc, job, target, nsuf, flags, rc,
                   stats, pushed, popped, allocs, exitStatus>>

\* readdir returns NULL: closedir and return to the caller
WalkReturn ==
    /\ mainpc = "walk"
    /\ wstack # <<>>
    /\ LET fr == wstack[Len(wstack)]
       IN  \A path \in Children(fs, fr.dir) : basename_const(path) \in fr.seen
    /\ wstack' = SubSeq(wstack, 1, Len(wstack) - 1)
    /\ mainpc' = IF Len(wstack) = 1 THEN "finish" ELSE "walk"
    /\ UNCHANGED <<opt, xdev, fault, fs0, stats_mx, reg, total, outfd, fs, q, name_mx, wpc, job, target, nsuf, flags, rc,
                   stats, pushed, popped, allocs, exitStatus>>

\* finish_jobs
FinishJobs ==
    /\ mainpc = "finish"
    /\ q' = [q EXCEPT !.done = TRUE]
    /\ wpc' = Broadcast(wpc)
    /\ mainpc' = "join"
    /\ UNCHANGED <<opt, xdev, fault, fs0, stats_mx, reg, total, outfd, fs, wstack, name_mx, job, target, nsuf, flags, rc,
                   stats, pushed, popped, allocs, exitStatus>>

\* the pthread_join loop
JoinWorkers ==
    /\ mainpc = "join"
    /\ \A w \in 1..nth : wpc[w] = "exit"
    /\ mainpc' = "prune"
    /\ UNCHANGED <<opt, xdev, fault, fs0, stats_mx, reg, total, outfd, fs, wstack, q, name_mx, wpc, job, target, nsuf, flags,
                   rc, stats, pushed, popped, allocs, exitStatus>>

path_is_empty_dir(f, dir) == IsDir(f, dir) /\ Children(f, dir) = {}

\* a pruner that removes every directory it has visited
PruneDir_Always(g, path) == Remove(g, path)

\* lines 553-554: rmdir of path when the recursive call left it empty
PruneDir(g, path) == IF path_is_empty_dir(g, path) THEN Remove(g, path) ELSE g

RECURSIVE prune_empty(_, _), PruneEntries(_, _, _)
\* the readdir loop of prune_empty(dir) over the entries still to be
\* returned, in any order: the outcomes, each the tree that is left and
\* whether path_join has called die; the tree left by one entry is the tree
\* the next entry is read from
PruneEntries(f, dir, todo) ==
    IF todo = {} THEN {[f |-> f, dead |-> FALSE]}
    ELSE UNION {
           IF TooLong(dir, basename_const(path), PATH_MAX)
             THEN {[f |-> f, dead |-> TRUE]}
           ELSE IF /\ IsDir(f, path)
                   /\ CanResolve(f, path)
                   /\ ~is_under(realpath(f, path), DST_CANON)
             THEN UNION {IF r.dead THEN {r}
                         ELSE PruneEntries(PruneDir(r.f, path), dir, todo \ {path}) :
                         r \in prune_empty(f, path)}
           ELSE PruneEntries(f, dir, todo \ {path}) :
           path \in todo}
prune_empty(f, dir) == PruneEntries(f, dir, Children(f, dir))

\* main, line 678
Prune ==
    /\ mainpc = "prune"
    /\ IF opt.prune_empty_dirs /\ ~opt.dry_run
         THEN \E r \in prune_empty(fs, SRC_CANON) :
                 /\ fs' = r.f
                 /\ IF r.dead THEN Dying
                    ELSE mainpc' = "report" /\ UNCHANGED <<wpc, exitStatus>>
         ELSE fs' = fs /\ mainpc' = "report" /\ UNCHANGED <<wpc, exitStatus>>
    /\ UNCHANGED <<opt, xdev, fault, fs0, stats_mx, reg, total, outfd, wstack, q,
                   name_mx, job, target, nsuf, flags, rc, stats, pushed, popped,
                   allocs>>

\* an exit status that also reports the jobs that were skipped
Report_SkippedFails ==
    /\ mainpc = "report"
    /\ exitStatus' = IF stats.failed + stats.skipped > 0 THEN EXIT_FAILURE
                     ELSE EXIT_SUCCESS
    /\ mainpc' = "done"
    /\ UNCHANGED <<opt, xdev, fault, fs0, stats_mx, reg, total, outfd, fs, wstack, q,
                   name_mx, wpc, job, target, nsuf, flags, rc, stats, pushed,
                   popped, allocs>>

\* main, lines 680-692: the summary and the exit status
Report ==
    /\ mainpc = "report"
    /\ exitStatus' = IF stats.failed > 0 THEN EXIT_FAILURE ELSE EXIT_SUCCESS
    /\ mainpc' = "done"
    /\ UNCHANGED <<opt, xdev, fault, fs0, stats_mx, reg, total, outfd, fs, wstack, q, name_mx, wpc, job, target, nsuf, flags,
                   rc, stats, pushed, popped, allocs>>

----------------------------------------------------------------------------
(* worker_main *)

\* where the worker goes once its target and flags are set
AfterTarget(skip, j, overwrite) ==
    IF skip THEN "skipped"
    ELSE IF opt.dry_run THEN "dry"
    ELSE IF j.is_symlink THEN "movelink"
    ELSE IF overwrite THEN "unlink"
    ELSE "rename"

\* MODE_SKIP: the literal target and one existence test
TargetSkip(w) ==
    /\ wpc[w] = "target"
    /\ opt.mode = MODE_SKIP
    /\ IF TooLong(DST_CANON, basename_const(job[w].rel_path), PATH_MAX) THEN die
       ELSE /\ LET t == path_join(DST_CANON, basename_const(job[w].rel_path))
                   skip == Exists(fs, t)
               IN  /\ target' = [target EXCEPT ![w] = t]
                   /\ flags' = [flags EXCEPT ![w].skip = skip]
                   /\ wpc' = [wpc EXCEPT ![w] = AfterTarget(skip, job[w], FALSE)]
            /\ UNCHANGED <<opt, xdev, fault, fs0, stats_mx, reg, total, outfd, fs,
                           mainpc, wstack, q, name_mx, job, nsuf, rc, stats,
                           pushed, popped, allocs, exitStatus>>

\* MODE_OVERWRITE: the literal target
TargetOverwrite(w) ==
    /\ wpc[w] = "target"
    /\ opt.mode = MODE_OVERWRITE
    /\ IF TooLong(DST_CANON, basename_const(job[w].rel_path), PATH_MAX) THEN die
       ELSE /\ target' = [target EXCEPT ![w] =
                             path_join(DST_CANON, basename_const(job[w].rel_path))]
            /\ flags' = [flags EXCEPT ![w].overwrite = TRUE]
            /\ wpc' = [wpc EXCEPT ![w] = AfterTarget(FALSE, job[w], TRUE)]
            /\ UNCHANGED <<opt, xdev, fault, fs0, stats_mx, reg, total, outfd, fs,
                           mainpc, wstack, q, name_mx, job, nsuf, rc, stats,
                           pushed, popped, allocs, exitStatus>>

\* MODE_RENAME: lock name_mx and enter unique_path (first candidate, n = 1)
LockName(w) ==
    /\ wpc[w] = "target"
    /\ opt.mode = MODE_RENAME
    /\ name_mx = 0
    /\ IF TooLong(DST_CANON, basename_const(job[w].rel_path), PATH_MAX) THEN die
       ELSE /\ name_mx' = w
            /\ target' = [target EXCEPT ![w] =
                             path_join(DST_CANON, basename_const(job[w].rel_path))]
            /\ nsuf' = [nsuf EXCEPT ![w] = 1]
            /\ wpc' = [wpc EXCEPT ![w] = "alloc"]
            /\ UNCHANGED <<opt, xdev, fault, fs0, stats_mx, reg, total, outfd, fs,
                           mainpc, wstack, q, job, flags, rc, stats, pushed, popped,
                           allocs, exitStatus>>

\* a worker that comes back from unique_path with name_mx still locked
UniqueProbe_KeepLock(w) ==
    /\ wpc[w] = "alloc"
    /\ IF Exists(fs, target[w])
         THEN LET c == Candidate(DST_CANON, basename_const(job[w].rel_path), nsuf[w])
              IN  IF Len(c) + 1 > PATH_MAX THEN die
                  ELSE /\ target' = [target EXCEPT ![w] = c]
                       /\ nsuf' = [nsuf EXCEPT ![w] = @ + 1]
                       /\ UNCHANGED <<name_mx, wpc, allocs, mainpc, exitStatus>>
         ELSE /\ name_mx' = name_mx
              /\ allocs' = allocs \cup {[src |-> job[w].src_path, path |-> target[w]]}
              /\ wpc' = [wpc EXCEPT ![w] = AfterTarget(FALSE, job[w], FALSE)]
              /\ UNCHANGED <<target, nsuf, mainpc, exitStatus>>
    /\ UNCHANGED <<opt, xdev, fault, fs0, stats_mx, reg, total, outfd, fs, wstack, q,
                   job, flags, rc, stats, pushed, popped>>

\* one test of the while loop of unique_path; when the candidate does not
\* exist unique_path returns it and the worker unlocks name_mx; a candidate
\* that does not fit the buffer is fatal
UniqueProbe(w) ==
    /\ wpc[w] = "alloc"
    /\ IF Exists(fs, target[w])
         THEN LET c == Candidate(DST_CANON, basename_const(job[w].rel_path), nsuf[w])
              IN  IF Len(c) + 1 > PATH_MAX THEN die
                  ELSE /\ target' = [target EXCEPT ![w] = c]
                       /\ nsuf' = [nsuf EXCEPT ![w] = @ + 1]
                       /\ UNCHANGED <<name_mx, wpc, allocs, mainpc, exitStatus>>
         ELSE /\ name_mx' = 0
              /\ allocs' = allocs \cup {[src |-> job[w].src_path, path |-> target[w]]}
              /\ wpc' = [wpc EXCEPT ![w] = AfterTarget(FALSE, job[w], FALSE)]
              /\ UNCHANGED <<target, nsuf, mainpc, exitStatus>>
    /\ UNCHANGED <<opt, xdev, fault, fs0, stats_mx, reg, total, outfd, fs, wstack, q,
                   job, flags, rc, stats, pushed, popped>>

\* the job is over: free it and go back to pop_job
NextJob(w) ==
    /\ wpc' = [wpc EXCEPT ![w] = "pop"]
    /\ job' = [job EXCEPT ![w] = NoJob]
    /\ target' = [target EXCEPT ![w] = <<>>]
    /\ nsuf' = [nsuf EXCEPT ![w] = 0]
    /\ flags' = [flags EXCEPT ![w] = NoFlags]
    /\ rc' = [rc EXCEPT ![w] = 0]
    /\ outfd' = [outfd EXCEPT ![w] = <<>>]
    /\ total' = [total EXCEPT ![w] = 0]

\* the counter the worker is about to add to, by its position
Counter(w) ==
    IF wpc[w] \in {"skipped", "dry"} THEN "skipped"
    ELSE IF wpc[w] = "copy_bytes" THEN "bytes_copied"
    ELSE IF rc[w] = 0 THEN "moved" ELSE "failed"

\* a counter loaded without waiting for the statistics lock
StatsLock_NoMutex(w) ==
    /\ wpc[w] \in {"skipped", "dry", "count", "copy_bytes"}
    /\ reg[w] = NoReg
    /\ stats_mx' = w
    /\ reg' = [reg EXCEPT ![w] = stats[Counter(w)]]
    /\ UNCHANGED <<opt, xdev, fault, fs0, total, outfd, fs, mainpc, wstack, q, name_mx,
                   wpc, job, target, nsuf, flags, rc, stats, pushed, popped, allocs,
                   exitStatus>>

\* add_moved, add_skipped, add_failed, add_bytes: pthread_mutex_lock and the
\* load of the counter
StatsLock(w) ==
    /\ wpc[w] \in {"skipped", "dry", "count", "copy_bytes"}
    /\ reg[w] = NoReg
    /\ stats_mx = 0
    /\ stats_mx' = w
    /\ reg' = [reg EXCEPT ![w] = stats[Counter(w)]]
    /\ UNCHANGED <<opt, xdev, fault, fs0, total, outfd, fs, mainpc, wstack, q, name_mx,
                   wpc, job, target, nsuf, flags, rc, stats, pushed, popped, allocs,
                   exitStatus>>

\* the store of the counter and pthread_mutex_unlock
Added(w, b) ==
    /\ reg[w] # NoReg
    /\ stats' = [stats EXCEPT ![Counter(w)] = reg[w] + b]
    /\ stats_mx' = 0
    /\ reg' = [reg EXCEPT ![w] = NoReg]

\* the target exists in MODE_SKIP: add_skipped
Skipped(w) ==
    /\ wpc[w] = "skipped"
    /\ Added(w, 1)
    /\ NextJob(w)
    /\ UNCHANGED <<opt, xdev, fault, fs0, fs, mainpc, wstack, q, name_mx, pushed,
                   popped, allocs, exitStatus>>

\* a dry run that reports the move and counts nothing
DryRun_Uncounted(w) ==
    /\ wpc[w] = "dry"
    /\ reg[w] # NoReg
    /\ stats' = stats
    /\ stats_mx' = 0
    /\ reg' = [reg EXCEPT ![w] = NoReg]
    /\ NextJob(w)
    /\ UNCHANGED <<opt, xdev, fault, fs0, fs, mainpc, wstack, q, name_mx, pushed,
                   popped, allocs, exitStatus>>

\* dry run: report the move and add_skipped
DryRun(w) ==
    /\ wpc[w] = "dry"
    /\ Added(w, 1)
    /\ NextJob(w)
    /\ UNCHANGED <<opt, xdev, fault, fs0, fs, mainpc, wstack, q, name_mx, pushed,
                   popped, allocs, exitStatus>>

\* move_file_with_modes: if (overwrite) unlink(dst)
Unlink(w) ==
    /\ wpc[w] = "unlink"
    /\ fs' = Unlinked(fs, target[w])
    /\ wpc' = [wpc EXCEPT ![w] = "rename"]
    /\ UNCHANGED <<opt, xdev, fault, fs0, stats_mx, reg, total, outfd, mainpc, wstack, q, name_mx, job, target, nsuf, flags,
                   rc, stats, pushed, popped, allocs, exitStatus>>

\* a rename whose every failure is answered with the copy
Rename_CopyOnAnyFailure(w) ==
    /\ wpc[w] = "rename"
    /\ IF ~CanRename(fs, job[w].src_path, target[w]) \/ Fails("rename", job[w].src_path)
            \/ xdev
         THEN /\ fs' = fs
              /\ rc' = rc
              /\ wpc' = [wpc EXCEPT ![w] = "copy_open"]
         ELSE /\ fs' = Renamed(fs, job[w].src_path, target[w])
              /\ rc' = [rc EXCEPT ![w] = 0]
              /\ wpc' = [wpc EXCEPT ![w] = "count"]
    /\ UNCHANGED <<opt, xdev, fault, fs0, stats_mx, reg, total, outfd, mainpc, wstack, q,
                   name_mx, job, target, nsuf, flags, stats, pushed, popped, allocs,
                   exitStatus>>

\* move_file_with_modes: rename(src, dst); across devices it fails with
\* EXDEV and the copy follows, any other failure ends the job
Rename(w) ==
    /\ wpc[w] = "rename"
    /\ IF ~CanRename(fs, job[w].src_path, target[w]) \/ Fails("rename", job[w].src_path)
         THEN /\ fs' = fs
              /\ rc' = [rc EXCEPT ![w] = -1]
              /\ wpc' = [wpc EXCEPT ![w] = "count"]
         ELSE IF xdev
         THEN /\ fs' = fs
              /\ rc' = rc
              /\ wpc' = [wpc EXCEPT ![w] = "copy_open"]
         ELSE /\ fs' = Renamed(fs, job[w].src_path, target[w])
              /\ rc' = [rc EXCEPT ![w] = 0]
              /\ wpc' = [wpc EXCEPT ![w] = "count"]
    /\ UNCHANGED <<opt, xdev, fault, fs0, stats_mx, reg, total, outfd, mainpc, wstack, q,
                   name_mx, job, target, nsuf, flags, stats, pushed, popped, allocs,
                   exitStatus>>

\* the inode open() gives a file it creates for the copy of src
NewInode(src) == <<"copy of">> \o src

\* move_file_with_modes: stat(src); copy_file_rw: open(src), open(dst)
CopyOpen(w) ==
    /\ wpc[w] = "copy_open"
    /\ IF /\ Exists(fs, job[w].src_path)
          /\ CanCreate(fs, target[w])
          /\ ~Fails("open", job[w].src_path)
         THEN /\ fs' = Created(fs, target[w], NewInode(job[w].src_path))
              /\ outfd' = [outfd EXCEPT ![w] =
                              Created(fs, target[w], NewInode(job[w].src_path))[target[w]].ino]
              /\ rc' = rc
              /\ wpc' = [wpc EXCEPT ![w] = "copy_data"]
         ELSE /\ fs' = fs
              /\ outfd' = outfd
              /\ rc' = [rc EXCEPT ![w] = -1]
              /\ wpc' = [wpc EXCEPT ![w] = "count"]
    /\ UNCHANGED <<opt, xdev, fault, fs0, stats_mx, reg, total, mainpc, wstack, q,
                   name_mx, job, target, nsuf, flags, stats, pushed, popped, allocs,
                   exitStatus>>

\* futimens(out, ts) on the file with inode i
Stamped(f, i, mt) ==
    [p \in DOMAIN f |->
        IF f[p].kind = "file" /\ f[p].ino = i THEN [f[p] EXCEPT !.mtime = mt]
        ELSE f[p]]

\* a fallback that removes the source although the write failed
CopyData_UnlinkAnyway(w) ==
    /\ wpc[w] = "copy_data"
    /\ LET src == fs[job[w].src_path]
       IN  IF Fails("write", job[w].src_path)
             THEN /\ fs' = Written(fs, outfd[w], SubSeq(src.data, 1, 1), 0)
                  /\ rc' = [rc EXCEPT ![w] = -1]
                  /\ wpc' = [wpc EXCEPT ![w] = "copy_unlink"]
                  /\ total' = total
             ELSE /\ fs' = Written(fs, outfd[w], src.data, 0)
                  /\ rc' = rc
                  /\ wpc' = [wpc EXCEPT ![w] = "copy_bytes"]
                  /\ total' = [total EXCEPT ![w] = Len(src.data)]
    /\ UNCHANGED <<opt, xdev, fault, fs0, stats_mx, reg, outfd, mainpc, wstack, q,
                   name_mx, job, target, nsuf, flags, stats, pushed, popped,
                   allocs, exitStatus>>

\* copy_file_rw: read and write (every file fits the 1 MiB buffer, so one
\* round of the loop); a write that fails has written the first byte, and
\* copy_file_rw returns -1 before it adds to total
CopyData(w) ==
    /\ wpc[w] = "copy_data"
    /\ LET src == fs[job[w].src_path]
       IN  IF Fails("write", job[w].src_path)
             THEN /\ fs' = Written(fs, outfd[w], SubSeq(src.data, 1, 1), 0)
                  /\ rc' = [rc EXCEPT ![w] = -1]
                  /\ wpc' = [wpc EXCEPT ![w] = "count"]
                  /\ total' = total
             ELSE /\ fs' = Written(fs, outfd[w], src.data, 0)
                  /\ rc' = rc
                  /\ wpc' = [wpc EXCEPT ![w] = "copy_bytes"]
                  /\ total' = [total EXCEPT ![w] = Len(src.data)]
    /\ UNCHANGED <<opt, xdev, fault, fs0, stats_mx, reg, outfd, mainpc, wstack, q,
                   name_mx, job, target, nsuf, flags, stats, pushed, popped,
                   allocs, exitStatus>>

\* copy_file_rw: the store of add_bytes after the chunk was written
CopyBytes(w) ==
    /\ wpc[w] = "copy_bytes"
    /\ Added(w, total[w])
    /\ wpc' = [wpc EXCEPT ![w] = "copy_sync"]
    /\ UNCHANGED <<opt, xdev, fault, fs0, total, outfd, fs, mainpc, wstack, q, name_mx,
                   job, target, nsuf, flags, rc, pushed, popped, allocs, exitStatus>>

\* copy_file_rw: read returns 0, then futimens, fsync, close
CopySync(w) ==
    /\ wpc[w] = "copy_sync"
    /\ fs' = IF opt.preserve_times
               THEN Stamped(fs, outfd[w], fs[job[w].src_path].mtime) ELSE fs
    /\ wpc' = [wpc EXCEPT ![w] = "copy_unlink"]
    /\ UNCHANGED <<opt, xdev, fault, fs0, stats_mx, reg, total, outfd, mainpc, wstack,
                   q, name_mx, job, target, nsuf, flags, rc, stats, pushed, popped,
                   allocs, exitStatus>>

\* move_file_with_modes: unlink(src) after the copy
CopyUnlink(w) ==
    /\ wpc[w] = "copy_unlink"
    /\ IF CanUnlink(fs, job[w].src_path) /\ ~Fails("unlink", job[w].src_path)
         THEN /\ fs' = Unlinked(fs, job[w].src_path)
              /\ rc' = [rc EXCEPT ![w] = 0]
         ELSE /\ fs' = fs
              /\ rc' = [rc EXCEPT ![w] = -1]
    /\ wpc' = [wpc EXCEPT ![w] = "count"]
    /\ UNCHANGED <<opt, xdev, fault, fs0, stats_mx, reg, total, outfd, mainpc, wstack, q,
                   name_mx, job, target, nsuf, flags, stats, pushed, popped, allocs,
                   exitStatus>>

\* move_symlink: readlink(src), then unlink(dst) when overwrite is set
ReadLink(w) ==
    /\ wpc[w] = "movelink"
    /\ IF Exists(fs, job[w].src_path) /\ fs[job[w].src_path].kind = "link"
         THEN /\ fs' = IF flags[w].overwrite THEN Unlinked(fs, target[w]) ELSE fs
              /\ rc' = rc
              /\ wpc' = [wpc EXCEPT ![w] = "symlink"]
         ELSE /\ fs' = fs
              /\ rc' = [rc EXCEPT ![w] = -1]
              /\ wpc' = [wpc EXCEPT ![w] = "count"]
    /\ UNCHANGED <<opt, xdev, fault, fs0, stats_mx, reg, total, outfd, mainpc, wstack, q,
                   name_mx, job, target, nsuf, flags, stats, pushed, popped, allocs,
                   exitStatus>>

\* move_symlink: symlink(target, dst), which fails when dst exists
Symlink(w) ==
    /\ wpc[w] = "symlink"
    /\ IF Exists(fs, target[w]) \/ Fails("symlink", job[w].src_path)
         THEN /\ fs' = fs
              /\ rc' = [rc EXCEPT ![w] = -1]
              /\ wpc' = [wpc EXCEPT ![w] = "count"]
         ELSE /\ fs' = Put(fs, target[w],
                           Link(NewInode(job[w].src_path), fs[job[w].src_path].data, 0))
              /\ rc' = rc
              /\ wpc' = [wpc EXCEPT ![w] = "link_unlink"]
    /\ UNCHANGED <<opt, xdev, fault, fs0, stats_mx, reg, total, outfd, mainpc, wstack, q,
                   name_mx, job, target, nsuf, flags, stats, pushed, popped, allocs,
                   exitStatus>>

\* move_symlink: unlink(src) after the new link exists
LinkUnlink(w) ==
    /\ wpc[w] = "link_unlink"
    /\ IF CanUnlink(fs, job[w].src_path)
         THEN /\ fs' = Unlinked(fs, job[w].src_path)
              /\ rc' = [rc EXCEPT ![w] = 0]
         ELSE /\ fs' = fs
              /\ rc' = [rc EXCEPT ![w] = -1]
    /\ wpc' = [wpc EXCEPT ![w] = "count"]
    /\ UNCHANGED <<opt, xdev, fault, fs0, stats_mx, reg, total, outfd, mainpc, wstack, q,
                   name_mx, job, target, nsuf, flags, stats, pushed, popped, allocs,
                   exitStatus>>

\* a worker that returns after the first job it could not move
Count_StopOnFailure(w) ==
    /\ wpc[w] = "count"
    /\ Added(w, 1)
    /\ wpc' = [wpc EXCEPT ![w] = IF rc[w] = 0 THEN "pop" ELSE "exit"]
    /\ job' = [job EXCEPT ![w] = NoJob]
    /\ target' = [target EXCEPT ![w] = <<>>]
    /\ nsuf' = [nsuf EXCEPT ![w] = 0]
    /\ flags' = [flags EXCEPT ![w] = NoFlags]
    /\ rc' = [rc EXCEPT ![w] = 0]
    /\ outfd' = [outfd EXCEPT ![w] = <<>>]
    /\ total' = [total EXCEPT ![w] = 0]
    /\ UNCHANGED <<opt, xdev, fault, fs0, fs, mainpc, wstack, q, name_mx, pushed,
                   popped, allocs, exitStatus>>

\* add_moved or add_failed, by rc
Count(w) ==
    /\ wpc[w] = "count"
    /\ Added(w, 1)
    /\ NextJob(w)
    /\ UNCHANGED <<opt, xdev, fault, fs0, fs, mainpc, wstack, q, name_mx, pushed,
                   popped, allocs, exitStatus>>

----------------------------------------------------------------------------

Next ==
    \/ Startup
    \/ SpawnWorker
    \/ BeginWalk
    \/ WalkEntry
    \/ WalkReturn
    \/ FinishJobs
    \/ JoinWorkers
    \/ Prune
    \/ Report
    \/ \E w \in Workers : PopTake(w)
    \/ \E w \in Workers : PopEnd(w)
    \/ \E w \in Workers : PopWait(w)
    \/ \E w \in Workers : SpuriousWake(w)
    \/ \E w \in Workers : TargetSkip(w)
    \/ \E w \in Workers : TargetOverwrite(w)
    \/ \E w \in Workers : LockName(w)
    \/ \E w \in Workers : UniqueProbe(w)
    \/ \E w \in Workers : Skipped(w)
    \/ \E w \in Workers : DryRun(w)
    \/ \E w \in Workers : Unlink(w)
    \/ \E w \in Workers : Rename(w)
    \/ \E w \in Workers : CopyOpen(w)
    \/ \E w \in Workers : CopyData(w)
    \/ \E w \in Workers : CopyBytes(w)
    \/ \E w \in Workers : CopySync(w)
    \/ \E w \in Workers : StatsLock(w)
    \/ \E w \in Workers : CopyUnlink(w)
    \/ \E w \in Workers : ReadLink(w)
    \/ \E w \in Workers : Symlink(w)
    \/ \E w \in Workers : LinkUnlink(w)
    \/ \E w \in Workers : Count(w)

Spec == Init /\ [][Next]_vars

\* the steps of the main thread, and the steps worker w takes when it is
\* scheduled: a thread in pthread_cond_wait runs again when it is woken, and
\* a spurious wake-up may happen but is not promised
MainNext ==
    \/ Startup \/ SpawnWorker \/ BeginWalk \/ WalkEntry \/ WalkReturn
    \/ FinishJobs \/ JoinWorkers \/ Prune \/ Report
WorkerNext(w) ==
    \/ PopTake(w) \/ PopEnd(w) \/ PopWait(w)
    \/ TargetSkip(w) \/ TargetOverwrite(w) \/ LockName(w) \/ UniqueProbe(w)
    \/ Skipped(w) \/ DryRun(w) \/ Unlink(w) \/ Rename(w)
    \/ CopyOpen(w) \/ CopyData(w) \/ CopyBytes(w) \/ CopySync(w) \/ CopyUnlink(w)
    \/ ReadLink(w) \/ Symlink(w) \/ LinkUnlink(w)
    \/ StatsLock(w) \/ Count(w)

\* The runs whose end is checked: unfiltered and walked to any depth, with
\* the destination nested in the source tree, and with one worker the runs
\* that copy to another device and those that move the symbolic link.
LiveScenario(o, x) ==
    /\ FilterOf(o) = NoFilter
    /\ o.max_depth = -1
    /\ o.min_depth <= 1
    /\ o.dst = DstOutside =>
           /\ o.threads = 1
           /\ (x /\ o.mode = MODE_RENAME) \/ o.include_symlinks

LiveInit == Init /\ LiveScenario(opt, xdev)

\* every thread that can run is scheduled again and again
FairSpec ==
    /\ LiveInit
    /\ [][Next]_vars
    /\ WF_vars(MainNext)
    /\ \A w \in Workers : WF_vars(WorkerNext(w))

----------------------------------------------------------------------------
(* Vocabulary of the properties *)

\* the path of a source file relative to the source root, and its depth:
\* the number of directories between the root and the file
RelOf(p) == SubSeq(p, Len(SRC) + 2, Len(p))
DepthOf(p) == Cardinality({i \in 1..Len(RelOf(p)) : RelOf(p)[i] = "/"})

\* p is the destination root or lies below it
InDst(p) == p = opt.dst \/ IsPrefix(opt.dst \o <<"/">>, p)

\* the entries directly inside the destination directory
DstEntries == {p \in DOMAIN fs : InDst(p) /\ p # opt.dst}

\* the sources of the jobs the walker has enqueued
PushedSrcs == {pushed[i].src_path : i \in 1..Len(pushed)}

Finished == mainpc = "done"

----------------------------------------------------------------------------
(* C1: in rename mode no two jobs are ever allocated the same final path by
   unique_path, under every interleaving of the workers. *)
C1_NoTwoJobsSamePath ==
    (opt.mode = MODE_RENAME /\ opt.threads >= 2 /\ ~opt.dry_run) =>
        \A a, b \in allocs : a.src # b.src => a.path # b.path

(* C2: when k >= 2 enqueued files share a base name, after a rename-mode run
   that is no dry run and had no failure the destination holds the k files
   under k distinct names, name, stem_1.ext, ..., stem_(k-1).ext when none of
   them was taken before, none overwritten, and moved counts every job. *)
C2_SameNamesAllKept ==
    (Finished /\ opt.mode = MODE_RENAME /\ ~opt.dry_run /\ stats.failed = 0) =>
        \A nm \in {basename_const(s) : s \in PushedSrcs} :
            LET same == {s \in PushedSrcs : basename_const(s) = nm}
                k == Cardinality(same)
                kept == {p \in DstEntries :
                            \E s \in same : fs[p].data = fs0[s].data}
                old == {p \in DstEntries : fs[p].data = OldBytes}
            IN  k >= 2 =>
                  /\ Cardinality(kept) = k
                  /\ old = {} =>
                       kept = {path_join(opt.dst, nm)}
                              \cup {Candidate(opt.dst, nm, i) : i \in 1..(k - 1)}
                  /\ stats.moved = Len(pushed)

\* the regular files of the source tree the options select: strictly deeper
\* than min-depth, not deeper than max-depth, accepted by the filters
Selected ==
    {s \in SourceFiles :
        /\ DepthOf(s) > opt.min_depth
        /\ opt.max_depth >= 0 => DepthOf(s) <= opt.max_depth
        /\ file_passes_filters(opt, RelOf(s), SourceTree[s], basename_const(s))}

(* C3: after a rename-mode run that is no dry run and had no failure, every
   selected file is gone from its original path and its content is held,
   unchanged, by exactly one entry directly inside the destination. *)
C3_SelectedFilesArrive ==
    (Finished /\ opt.mode = MODE_RENAME /\ ~opt.dry_run /\ stats.failed = 0) =>
        \A s \in Selected :
            /\ s \notin DOMAIN fs
            /\ Cardinality({p \in DstEntries : fs[p].data = SourceTree[s].data}) = 1

(* C4 as stated: every file at a depth <= min-depth is never enqueued and is
   still at its original path, unchanged. *)
C4_AtOrBelowMinDepthStays ==
    \A s \in SourceFiles :
        DepthOf(s) <= opt.min_depth =>
            /\ s \notin PushedSrcs
            /\ s \in DOMAIN fs
            /\ fs[s] = SourceTree[s]

(* C4 amended: every file the walker finds at a depth strictly less than
   min-depth is never enqueued and stays at its original path, unchanged, in
   every mode. *)
C4_BelowMinDepthStays ==
    \A s \in SourceFiles :
        DepthOf(s) < opt.min_depth =>
            /\ s \notin PushedSrcs
            /\ s \in DOMAIN fs
            /\ fs[s] = SourceTree[s]

\* a run that moved a deeper file and is over, while a shallower file stayed
C4_Witness ==
    /\ Finished
    /\ opt.min_depth = 2
    /\ stats.moved = 1
    /\ path_join(DirX, NameP) \in DOMAIN fs

\* the step is part of the copy worker w makes into the file it created
\* itself for its job, which holds inode i
FillsOwnCopy(w, i) ==
    /\ \/ wpc[w] = "copy_data" /\ wpc'[w] \in {"copy_bytes", "count"}
       \/ wpc[w] = "copy_sync" /\ wpc'[w] = "copy_unlink"
    /\ outfd[w] = i
    /\ i = NewInode(job[w].src_path)

(* C5: in skip mode no step of any worker replaces, empties or removes an
   entry that exists in the destination (a worker filling the file it has
   just created for its own job aside), and a job whose literal name exists
   there when it is tested goes on to be counted as skipped, its source
   untouched. *)
C5_SkipNeverOverwrites ==
    [][opt.mode = MODE_SKIP =>
          /\ \A p \in DstEntries :
                \/ p \in DOMAIN fs' /\ fs'[p] = fs[p]
                \/ \E w \in Workers : FillsOwnCopy(w, fs[p].ino)
          /\ \A w \in Workers :
                (/\ wpc[w] = "target"
                 /\ wpc'[w] # "target"
                 /\ Exists(fs, path_join(opt.dst, basename_const(job[w].rel_path))))
                => wpc'[w] = "skipped" /\ fs' = fs]_vars

(* C6: after an overwrite-mode run that is no dry run and had no failure,
   every job is counted as moved, every job's source path is gone, the
   destination entry of its literal name holds the content of a source file
   of that name, and the content the destination held under that name
   before the run is gone. *)
C6_OverwriteReplaces ==
    (Finished /\ opt.mode = MODE_OVERWRITE /\ ~opt.dry_run /\ stats.failed = 0) =>
        /\ stats.moved = Len(pushed)
        /\ \A s \in PushedSrcs :
              LET t == path_join(opt.dst, basename_const(s))
              IN  /\ s \notin DOMAIN fs
                  /\ t \in DOMAIN fs
                  /\ fs[t].data \in {fs0[r].data :
                                       r \in {x \in PushedSrcs :
                                                basename_const(x) = basename_const(s)}}

(* C7: in a dry run no step of the run (startup, walker, workers, pruner)
   changes the filesystem, every job taken from the queue is counted as
   skipped, and moved, failed and bytes-copied stay 0. *)
C7_DryRunMutatesNothing ==
    /\ [][opt.dry_run => fs' = fs]_vars
    /\ [](opt.dry_run =>
            /\ stats.moved = 0 /\ stats.failed = 0 /\ stats.bytes_copied = 0
            /\ stats.skipped <= Len(popped)
            /\ Finished => stats.skipped = Len(popped))

(* C8: with the destination nested inside the source tree the walker never
   opens the destination root or a directory below it, no job has its source
   inside the destination subtree, and the run comes to its end while the
   workers add files to the destination. *)
C8_DestinationExcluded ==
    /\ [](opt.dst = DstNested =>
            /\ \A i \in 1..Len(wstack) : ~InDst(wstack[i].dir)
            /\ \A s \in PushedSrcs : ~InDst(s))
    /\ (opt.dst = DstNested => <>Finished)

\* the walk is over and has enqueued files while the nested destination
\* holds an entry it found there and one a worker brought
C8_Witness ==
    /\ opt.dst = DstNested
    /\ mainpc = "finish"
    /\ opt.threads = MaxThreads
    /\ Len(pushed) = 2
    /\ Cardinality(DstEntries) >= 2
    /\ \E p \in DstEntries : fs[p].data = OldBytes

(* C9: the jobs returned by pop_job, in the order of the pops, are a prefix
   of the jobs pushed by the walker, the jobs not yet returned are the queue,
   no job is returned twice or held by two workers, and when every worker
   has exited the two sequences are equal. *)
C9_PopsArePrefixOfPushes ==
    /\ Len(popped) <= Len(pushed)
    /\ popped = SubSeq(pushed, 1, Len(popped))
    /\ q.items = SubSeq(pushed, Len(popped) + 1, Len(pushed))
    /\ \A i, j \in 1..Len(popped) : i # j => popped[i] # popped[j]
    /\ \A v, w \in Workers : (v # w /\ job[v] # NoJob) => job[v] # job[w]
    /\ (\A w \in 1..nth : wpc[w] = "exit") => popped = pushed

\* two workers hold the first two jobs while a third is queued
C9_Witness ==
    /\ Len(pushed) = 3
    /\ Len(popped) = 2
    /\ \E v, w \in Workers : v # w /\ job[v] # NoJob /\ job[w] # NoJob
    /\ Len(q.items) = 1

(* C10: done is set by one step only, taken when the top-level
   traverse_and_queue has returned; once set it stays set and no job is
   pushed; and main does not go on to join the workers without it. *)
C10_DoneSetOnceAfterWalk ==
    /\ [][/\ (~q.done /\ q'.done) => (mainpc = "finish" /\ wstack = <<>>)
          /\ (mainpc = "finish" /\ mainpc' # "finish") => (~q.done /\ q'.done)
          /\ q.done => (q'.done /\ pushed' = pushed /\ mainpc # "finish")]_vars
    /\ [](mainpc \in {"join", "prune", "report", "done"} => q.done)

\* done is set after the walker has pushed jobs, one of them still queued
C10_Witness ==
    /\ q.done
    /\ Len(pushed) >= 2
    /\ q.items # <<>>

(* C11: pop_job returns false only when done is set and the list is empty, so
   a worker that has ended leaves no job queued and the walker is over; with
   a job queued pop_job returns the head, whether done is set or not; with
   the list empty and done not set the worker waits, and a woken worker
   tests the list again. *)
C11_EndOfStreamOnlyWhenDone ==
    /\ [](\A w \in Workers :
            wpc[w] = "exit" =>
                /\ q.done /\ q.items = <<>>
                /\ mainpc \notin {"start", "spawn", "walk", "finish"})
    /\ [][\A w \in Workers :
            /\ (wpc[w] # "exit" /\ wpc'[w] = "exit") =>
                   (wpc[w] = "pop" /\ q.done /\ q.items = <<>>)
            /\ (wpc[w] = "pop" /\ wpc'[w] \notin {"pop", "killed"} /\ q.items # <<>>) =>
                   (wpc'[w] = "target" /\ job'[w] = Head(q.items))
            /\ (wpc[w] = "pop" /\ wpc'[w] \notin {"pop", "killed"}
                   /\ q.items = <<>> /\ ~q.done) =>
                   wpc'[w] = "wait"
            /\ (wpc[w] = "wait" /\ wpc'[w] \notin {"wait", "killed"}) =>
                   wpc'[w] = "pop"]_vars

\* done is set, one worker has been given the last job after that and another
\* one has ended
C11_Witness ==
    /\ q.done
    /\ \E v, w \in Workers :
          /\ wpc[v] = "exit"
          /\ wpc[w] = "target"
          /\ job[w] = pushed[Len(pushed)]

(* C12: under fair scheduling the run comes to its end: main gets past the
   join, so every worker that was started has exited, and by then every job
   the walker pushed has been popped and counted and no lock is held; before
   that, main never passes the join while a worker is still running. *)
C12_JobsProcessedWorkersExit ==
    /\ <>(/\ mainpc = "done"
          /\ \A w \in 1..nth : wpc[w] = "exit"
          /\ popped = pushed
          /\ stats.moved + stats.skipped + stats.failed = Len(pushed)
          /\ name_mx = 0 /\ stats_mx = 0)
    /\ [](mainpc \in {"prune", "report", "done"} =>
            \A w \in 1..nth : wpc[w] = "exit")

\* main is past the join of two workers that have moved several jobs
C12_Witness ==
    /\ mainpc = "prune"
    /\ opt.threads = MaxThreads
    /\ Len(pushed) >= 2
    /\ stats.moved >= 2

\* the jobs a worker has popped and not yet counted
InHand == {w \in Workers : job[w] # NoJob}

(* C13: a relocation that fails leaves the worker at the counting step with
   its job; counting it adds exactly one to failed and to nothing else, sends
   the worker back to pop_job and leaves the main thread and the exit status
   alone; every popped job is counted exactly once (no retry), and at the end
   of the run every pushed job has been popped and counted. *)
C13_FailureIsCountedOnce ==
    /\ [](stats.moved + stats.skipped + stats.failed + Cardinality(InHand)
              = Len(popped))
    /\ [](Finished => popped = pushed /\ InHand = {})
    /\ [][\A w \in Workers :
            /\ (rc[w] # -1 /\ rc'[w] = -1) =>
                   /\ wpc'[w] = "count" /\ job'[w] = job[w]
                   /\ stats' = stats /\ mainpc' = mainpc
            /\ (wpc[w] = "count" /\ rc[w] = -1 /\ wpc'[w] \notin {"count", "killed"}) =>
                   /\ wpc'[w] = "pop" /\ job'[w] = NoJob
                   /\ stats' = [stats EXCEPT !.failed = @ + 1]
                   /\ mainpc' = mainpc /\ exitStatus' = exitStatus
                   /\ \A v \in Workers \ {w} : wpc'[v] = wpc[v]]_vars

\* the first job popped failed, and the one after it was moved all the same
C13_Witness ==
    /\ Finished
    /\ Len(popped) = 2
    /\ popped[1].src_path = FaultSrc
    /\ fault \in {"rename", "open", "write", "unlink"}
    /\ stats.failed = 1
    /\ stats.moved = 1

(* C14: whenever the process has ended through die(), no worker had been
   started, the walker had not begun, nothing had been enqueued, and every
   entry the tree had at the start is still there unchanged. *)
C14_FatalOnlyBeforeWork ==
    mainpc = "dead" =>
        /\ \A w \in Workers : wpc[w] = "unborn"
        /\ pushed = <<>>
        /\ \A p \in DOMAIN fs0 : p \in DOMAIN fs /\ fs[p] = fs0[p]

(* C15: the source of a pushed job leaves the tree only in a step of the
   worker that holds the job: for a regular file either a rename that
   succeeds, or the unlink of the fallback after the worker has written all
   the bytes of the source; for a link the unlink after the new link exists
   at the target.  A fallback that fails in open or write leaves the source
   as it was at the start, after a failed write the target file is there, and
   counting the failure changes nothing in the tree. *)
C15_SourceRemovedOnlyAfterArrival ==
    [][/\ \A i \in 1..Len(pushed) :
            LET s == pushed[i].src_path
            IN  (s \in DOMAIN fs /\ s \notin DOMAIN fs') =>
                  \E w \in Workers :
                    /\ job[w] = pushed[i]
                    /\ rc'[w] = 0
                    /\ \/ /\ ~job[w].is_symlink
                          /\ wpc[w] = "rename"
                          /\ target[w] \in DOMAIN fs'
                          /\ fs'[target[w]] = fs[s]
                       \/ /\ ~job[w].is_symlink
                          /\ wpc[w] = "copy_unlink"
                          /\ total[w] = Size(fs[s])
                       \/ /\ job[w].is_symlink
                          /\ wpc[w] = "link_unlink"
                          /\ target[w] \in DOMAIN fs
                          /\ fs[target[w]].kind = "link"
                          /\ fs[target[w]].data = fs[s].data
       /\ \A w \in Workers :
            /\ (wpc[w] \in {"copy_open", "copy_data"} /\ rc'[w] = -1) =>
                  /\ job[w].src_path \in DOMAIN fs'
                  /\ fs'[job[w].src_path] = fs0[job[w].src_path]
                  /\ wpc[w] = "copy_data" =>
                        /\ target[w] \in DOMAIN fs'
                        /\ fs'[target[w]].kind = "file"
            /\ (wpc[w] = "count" /\ wpc'[w] = "pop") => fs' = fs]_vars

\* a write of the fallback has failed: the source is whole, the target holds
\* the first byte only
C15_Witness ==
    \E w \in Workers :
        /\ wpc[w] = "count" /\ rc[w] = -1 /\ fault = "write"
        /\ job[w].src_path = FaultSrc
        /\ fs[FaultSrc] = fs0[FaultSrc]
        /\ target[w] \in DOMAIN fs
        /\ Size(fs[target[w]]) = 1
        /\ Size(fs[FaultSrc]) > 1

\* the workers between the load and the store of a counter
Adding == {w \in Workers : reg[w] # NoReg}

(* C16: no counter ever decreases; a counter changes only in a step of the
   worker that holds stats.mx, which is the only worker between load and
   store; moved, skipped and failed together count the finished jobs, so no
   update is lost; and while main is at or after the reading of the counters
   every worker has exited and none holds the lock. *)
C16_CountersUnderLock ==
    /\ [](/\ \A w \in Adding : stats_mx = w
          /\ (stats_mx # 0 => stats_mx \in Adding)
          /\ stats.moved + stats.skipped + stats.failed + Cardinality(InHand)
                 = Len(popped)
          /\ mainpc \in {"report", "done"} =>
                 /\ stats_mx = 0
                 /\ \A w \in 1..nth : wpc[w] = "exit")
    /\ [][/\ stats'.moved >= stats.moved
          /\ stats'.skipped >= stats.skipped
          /\ stats'.failed >= stats.failed
          /\ stats'.bytes_copied >= stats.bytes_copied
          /\ stats' # stats =>
                 /\ stats_mx \in Workers
                 /\ reg[stats_mx] = stats[Counter(stats_mx)]
                 /\ wpc'[stats_mx] # wpc[stats_mx]
                 /\ stats_mx' = 0]_vars

\* two workers are at a counter at the same time: one holds the lock and has
\* loaded it, the other has to wait
C16_Witness ==
    \E v, w \in Workers :
        /\ v # w
        /\ stats_mx = v /\ reg[v] # NoReg
        /\ wpc[v] = "count" /\ wpc[w] = "count"
        /\ Counter(v) = Counter(w)
        /\ stats[Counter(v)] >= 1

\* the next step of worker w is a call into the file system: access in
\* MODE_SKIP and in unique_path, unlink, rename, open, read and write,
\* futimens and fsync, readlink, symlink
FsCall(w) ==
    \/ wpc[w] = "target" /\ opt.mode = MODE_SKIP
    \/ wpc[w] \in {"alloc", "unlink", "rename", "copy_open", "copy_data",
                   "copy_sync", "copy_unlink", "movelink", "symlink",
                   "link_unlink"}

\* worker w holds name_mx or stats.mx
HoldsLock(w) == name_mx = w \/ stats_mx = w

(* C17 as stated: a worker about to make a file system call holds neither
   the allocator lock nor the statistics lock. *)
C17_NoLockAcrossFsCall ==
    \A w \in Workers : FsCall(w) => ~HoldsLock(w)

(* C17: a worker about to make a file system call never holds the statistics
   lock, and holds the allocator lock only for the access() probes of
   unique_path, never for unlink, rename, copy or symlink; a worker waiting
   on the queue holds neither; the steps made under the queue lock change
   nothing in the file system. *)
C17_OnlyProbesUnderAllocatorLock ==
    /\ [](\A w \in Workers :
            /\ FsCall(w) => stats_mx # w
            /\ (FsCall(w) /\ name_mx = w) => wpc[w] = "alloc"
            /\ wpc[w] = "alloc" => name_mx = w
            /\ wpc[w] \in {"pop", "wait"} => ~HoldsLock(w))
    /\ [][q' # q => fs' = fs]_vars

\* a worker probes its second candidate under name_mx while the other worker
\* is about to rename without any lock
C17_Witness ==
    \E v, w \in Workers :
        /\ wpc[v] = "alloc" /\ name_mx = v /\ nsuf[v] >= 2
        /\ wpc[w] = "rename" /\ ~HoldsLock(w)

(* C18: when main has returned, the exit status is EXIT_FAILURE if failed is
   greater than zero and EXIT_SUCCESS otherwise, whatever the number of
   skipped jobs; a dry run that reaches its end returns EXIT_SUCCESS. *)
C18_ExitStatusIffFailed ==
    Finished =>
        /\ exitStatus = IF stats.failed > 0 THEN EXIT_FAILURE ELSE EXIT_SUCCESS
        /\ (exitStatus # EXIT_SUCCESS) <=> (stats.failed > 0)
        /\ opt.dry_run => exitStatus = EXIT_SUCCESS

\* a run that ended with one job failed and the other moved
C18_Witness ==
    /\ Finished
    /\ stats.failed = 1 /\ stats.moved = 1
    /\ exitStatus = EXIT_FAILURE

\* the files, and with include_symlinks the links, that the tree held outside
\* the destination at the start and that satisfy the depth bounds and the
\* filters, by their depth below the source root
Eligible ==
    {p \in DOMAIN fs0 :
        /\ IsPrefix(SRC \o <<"/">>, p) /\ ~InDst(p)
        /\ fs0[p].kind = "file" \/ (fs0[p].kind = "link" /\ opt.include_symlinks)
        /\ DepthOf(p) >= opt.min_depth
        /\ opt.max_depth >= 0 => DepthOf(p) <= opt.max_depth
        /\ file_passes_filters(opt, RelOf(p), fs0[p], basename_const(p))}

(* C19: every job the walker pushes is an eligible entry, carries the depth
   of its path, which lies between min-depth and max-depth, and is pushed
   once; when the walk has returned, the pushed jobs are exactly the eligible
   entries; the walker enters a directory found at depth d only when no
   max-depth is set or d < max-depth; and a run with the default depth
   bounds that had no failure leaves the file at depth 0 in place and has
   taken the file at depth 1 away from its path. *)
C19_EnqueuedExactlyWithinDepthBounds ==
    /\ [](/\ \A i \in 1..Len(pushed) :
                /\ pushed[i].src_path \in Eligible
                /\ pushed[i].depth = DepthOf(pushed[i].src_path)
                /\ pushed[i].depth >= opt.min_depth
                /\ opt.max_depth >= 0 => pushed[i].depth <= opt.max_depth
                /\ pushed[i].is_symlink = (fs0[pushed[i].src_path].kind = "link")
                /\ \A k \in 1..Len(pushed) :
                       pushed[k].src_path = pushed[i].src_path => k = i
          /\ mainpc \in {"finish", "join", "prune", "report", "done"} =>
                PushedSrcs = Eligible
          /\ \A k \in 1..Len(wstack) :
                /\ wstack[k].depth = k - 1
                /\ opt.max_depth >= 0 => wstack[k].depth <= opt.max_depth
          /\ (/\ Finished /\ opt.min_depth = 1 /\ opt.max_depth = -1
              /\ FilterOf(opt) = NoFilter /\ opt.mode = MODE_RENAME
              /\ ~opt.dry_run /\ stats.failed = 0) =>
                /\ path_join(DirX, NameP) \notin DOMAIN fs
                /\ path_join(SRC, NameF) \in DOMAIN fs
                /\ fs[path_join(SRC, NameF)] = fs0[path_join(SRC, NameF)])
    /\ [][(wstack # <<>> /\ Len(wstack') > Len(wstack)) =>
            /\ Len(wstack') = Len(wstack) + 1
            /\ wstack'[Len(wstack')].depth = wstack[Len(wstack)].depth + 1
            /\ opt.max_depth = -1 \/ wstack[Len(wstack)].depth < opt.max_depth]_vars

\* with min-depth 1 and max-depth 1 the walk has returned with s/x/p.t as its
\* only job: s/f.t is above the bounds and s/x/y/p.t below them
C19_Witness ==
    /\ mainpc = "finish"
    /\ opt.min_depth = 1 /\ opt.max_depth = 1
    /\ PushedSrcs = {path_join(DirX, NameP)}
    /\ path_join(DirY, NameP) \in DOMAIN fs0

\* rename(src, dst) of worker w would fail with an error other than EXDEV
RenameRefused(w) ==
    ~CanRename(fs, job[w].src_path, target[w]) \/ Fails("rename", job[w].src_path)

(* C20: a regular-file job comes to rename before any step of the copy; the
   copy is entered from the rename alone, and exactly when the rename failed
   because the destination is on another device; a rename that succeeds
   moves the entry and ends the job as moved; any other failure of the
   rename and any failure of open, write or unlink in the copy takes the
   worker straight to counting the job as failed with the source still in
   place, and from there to pop_job with the tree as it is. *)
C20_CopyOnlyAfterCrossDeviceRename ==
    [][\A w \in Workers :
        /\ (wpc'[w] = "rename" /\ wpc[w] # "rename") =>
              wpc[w] \in {"target", "alloc", "unlink"}
        /\ (wpc'[w] = "copy_open" /\ wpc[w] # "copy_open") =>
              /\ wpc[w] = "rename" /\ xdev /\ ~RenameRefused(w)
              /\ fs' = fs
        /\ (wpc[w] = "rename" /\ wpc'[w] \notin {"rename", "killed"}) =>
              IF RenameRefused(w)
                THEN wpc'[w] = "count" /\ rc'[w] = -1 /\ fs' = fs
              ELSE IF xdev
                THEN wpc'[w] = "copy_open" /\ fs' = fs
              ELSE /\ wpc'[w] = "count" /\ rc'[w] = 0
                   /\ fs' = Renamed(fs, job[w].src_path, target[w])
        /\ (wpc'[w] \in {"copy_data", "copy_bytes", "copy_sync", "copy_unlink"}
               /\ wpc'[w] # wpc[w]) =>
              wpc[w] \in {"copy_open", "copy_data", "copy_bytes", "copy_sync"}
        /\ (wpc[w] \in {"copy_open", "copy_data", "copy_unlink"} /\ rc'[w] = -1) =>
              /\ wpc'[w] = "count"
              /\ job[w].src_path \in DOMAIN fs'
        /\ (wpc[w] = "count" /\ wpc'[w] \notin {"count", "killed"}) =>
              wpc'[w] = "pop" /\ fs' = fs]_vars

\* on another device the rename has handed over to the copy, and the open of
\* the copy has failed: the job is about to be counted as failed, its source
\* in place
C20_Witness ==
    \E w \in Workers :
        /\ xdev /\ fault = "open"
        /\ wpc[w] = "count" /\ rc[w] = -1
        /\ job[w].src_path = FaultSrc
        /\ FaultSrc \in DOMAIN fs
        /\ target[w] \notin DOMAIN fs

\* the sizes the files of the set S had at the start, added up
RECURSIVE SizeSum(_)
SizeSum(S) ==
    IF S = {} THEN 0
    ELSE LET s == CHOOSE x \in S : TRUE
         IN  Size(fs0[s]) + SizeSum(S \ {s})

\* the regular files relocated by the copy fallback: on another device every
\* pushed file that has left its path went through copy_file_rw
CopiedAway ==
    IF xdev
      THEN {s \in PushedSrcs : fs0[s].kind = "file" /\ s \notin DOMAIN fs}
      ELSE {}

(* C21: when main has returned, bytes-copied is the total size of the files
   that were relocated by the copy fallback; jobs that failed, were renamed,
   skipped or reported by a dry run have added nothing. *)
C21_BytesOnlyFromCopiedFiles ==
    Finished => stats.bytes_copied = SizeSum(CopiedAway)

\* the entries of the tree f that lie below the directory p
Below(f, p) == {x \in DOMAIN f : Len(x) > Len(p) /\ IsPrefix(p \o <<"/">>, x)}

(* C22: the pruner has its turn only when done is set and every worker has
   exited; its step changes the tree only when prune-empty-dirs is on and
   dry-run is off, and then it only removes directories, none of them the
   source root, the destination root or below the destination root, and none
   with an entry left below it; when it returns without die, no directory of
   the source tree outside the destination is left empty, so a parent whose
   children were pruned is pruned too. *)
C22_PrunerRemovesOnlyEmptySourceDirs ==
    /\ [](mainpc = "prune" =>
            /\ q.done /\ q.items = <<>>
            /\ \A w \in 1..nth : wpc[w] = "exit")
    /\ [][mainpc = "prune" =>
            /\ ~(opt.prune_empty_dirs /\ ~opt.dry_run) => fs' = fs
            /\ \A p \in DOMAIN fs' : p \in DOMAIN fs /\ fs'[p] = fs[p]
            /\ \A p \in DOMAIN fs \ DOMAIN fs' :
                  /\ fs[p].kind = "dir"
                  /\ p # SRC_CANON
                  /\ ~is_under(p, DST_CANON)
                  /\ Below(fs', p) = {}
                  /\ \A x \in Below(fs, p) : fs[x].kind = "dir"
            /\ SRC_CANON \in DOMAIN fs'
            /\ (opt.prune_empty_dirs /\ ~opt.dry_run /\ mainpc' = "report") =>
                  \A p \in DOMAIN fs' :
                     (/\ fs'[p].kind = "dir"
                      /\ IsPrefix(SRC_CANON \o <<"/">>, p)
                      /\ ~is_under(p, DST_CANON)) => Children(fs', p) # {}]_vars

\* the pruner has returned: s/x/y was emptied by the workers, s/x became
\* empty when s/x/y was removed, both are gone, and the destination inside
\* the source tree and the source root are still there
C22_Witness ==
    /\ mainpc = "report"
    /\ opt.prune_empty_dirs /\ ~opt.dry_run
    /\ opt.dst = DstNested
    /\ DirX \notin DOMAIN fs /\ DirY \notin DOMAIN fs
    /\ DirX \in DOMAIN fs0 /\ DirY \in DOMAIN fs0
    /\ SRC \in DOMAIN fs /\ DstNested \in DOMAIN fs

-----------------------------------------------------------------------------
(* The allocator on its own: one worker has popped the only job of the run,
   a file of the source root under one of the names below, and the
   destination holds any of the name and its first candidates. *)

AllocNames ==
    {<<"a">>, <<".", "x">>, <<"a", ".", "b">>, <<"a", ".">>,
     <<".", "a", ".", "b">>, <<"a", ".", "b", ".", "c">>}

AllocOptions ==
    [src |-> SRC, dst |-> DstOutside, threads |-> 1, mode |-> MODE_RENAME,
     min_depth |-> 0, max_depth |-> -1, dry_run |-> FALSE,
     preserve_times |-> TRUE, include_symlinks |-> FALSE,
     prune_empty_dirs |-> FALSE] @@ NoFilter

\* the extension of a desired name: none for a name that begins with a dot
\* and has no further dot and for a name without a dot, else the last dot and
\* what follows it
ExtOfName(name) ==
    LET D == {i \in 1..Len(name) : name[i] = "."}
    IN  IF D = {} \/ D = {1} THEN <<>>
        ELSE LET last == CHOOSE i \in D : \A j \in D : j <= i
             IN  SubSeq(name, last, Len(name))

StemOfName(name) == SubSeq(name, 1, Len(name) - Len(ExtOfName(name)))

\* the candidate sequence: destination/name, then destination/stem_N ext
NthCandidate(name, n) ==
    IF n = 0 THEN DstOutside \o <<"/">> \o name
    ELSE DstOutside \o <<"/">> \o StemOfName(name) \o <<"_">> \o itoa(n)
                    \o ExtOfName(name)

AllocJob(name) ==
    [src_path |-> path_join(SRC, name), rel_path |-> name, depth |-> 0,
     is_symlink |-> FALSE]

AllocFs(name, taken) ==
    (SRC :> Dir(SRC)) @@ (DstOutside :> Dir(DstOutside))
    @@ (path_join(SRC, name) :> File(path_join(SRC, name), <<"n">>, 1))
    @@ [p \in {NthCandidate(name, n) : n \in taken} |-> File(p, OldBytes, 4)]

AllocInit ==
    /\ opt = AllocOptions
    /\ xdev = FALSE
    /\ fault = "none"
    /\ \E name \in AllocNames, taken \in SUBSET (0..MaxTaken) :
          /\ fs = AllocFs(name, taken)
          /\ job = [w \in Workers |-> IF w = 1 THEN AllocJob(name) ELSE NoJob]
          /\ pushed = <<AllocJob(name)>>
    /\ popped = pushed
    /\ fs0 = fs
    /\ stats_mx = 0
    /\ reg = [w \in Workers |-> NoReg]
    /\ total = [w \in Workers |-> 0]
    /\ mainpc = "join"
    /\ wstack = <<>>
    /\ q = [items |-> <<>>, done |-> TRUE]
    /\ name_mx = 0
    /\ wpc = [w \in Workers |-> IF w = 1 THEN "target" ELSE "unborn"]
    /\ target = [w \in Workers |-> <<>>]
    /\ nsuf = [w \in Workers |-> 0]
    /\ flags = [w \in Workers |-> NoFlags]
    /\ rc = [w \in Workers |-> 0]
    /\ outfd = [w \in Workers |-> <<>>]
    /\ stats = [moved |-> 0, skipped |-> 0, failed |-> 0, bytes_copied |-> 0]
    /\ allocs = {}
    /\ exitStatus = -1

AllocNext == \E w \in Workers : LockName(w) \/ UniqueProbe(w)

AllocSpec == AllocInit /\ [][AllocNext]_vars

\* the desired name of the job of worker 1
DesiredName == basename_const(job[1].rel_path)

\* the first index of the candidate sequence whose path does not exist
FirstFree ==
    CHOOSE n \in 0..(MaxTaken + 1) :
        /\ NthCandidate(DesiredName, n) \notin DOMAIN fs
        /\ \A k \in 0..(n - 1) : NthCandidate(DesiredName, k) \in DOMAIN fs

(* C23: when unique_path has returned, the target is the first path of the
   sequence destination/name, destination/stem_1ext, destination/stem_2ext,
   ... that does not exist, with the extension split off as the last dot and
   what follows it, except that a leading dot alone starts no extension; the
   target names no existing entry, and every candidate tested before it
   existed. *)
C23_FirstFreeCandidate ==
    /\ wpc[1] = "alloc" =>
          /\ name_mx = 1
          /\ target[1] = NthCandidate(DesiredName, nsuf[1] - 1)
          /\ \A k \in 0..(nsuf[1] - 2) : NthCandidate(DesiredName, k) \in DOMAIN fs
    /\ wpc[1] \notin {"target", "alloc", "killed"} =>
          /\ target[1] = NthCandidate(DesiredName, FirstFree)
          /\ target[1] \notin DOMAIN fs
          /\ name_mx = 0
          /\ fs = fs0

\* a.b.c, a.b_1.c and a.b_2.c exist, and unique_path has returned a.b_3.c
C23_Witness ==
    /\ wpc[1] = "rename"
    /\ DesiredName = <<"a", ".", "b", ".", "c">>
    /\ FirstFree = MaxTaken + 1
    /\ target[1] = DstOutside \o <<"/", "a", ".", "b", "_">> \o itoa(MaxTaken + 1)
                      \o <<".", "c">>

-----------------------------------------------------------------------------
(* The Filter Engine on its own: the walker goes over a tree that holds one
   candidate, in the source root or in s/x, next to the file s/b, under any
   combination of configured and unconfigured filter categories. *)

FilterNames == {<<"a", ".", "t">>, <<"a", ".", "u">>, <<".", "t">>, <<"a">>}

FilterCombinations ==
    [includes : {<<>>, << <<"X", "/", "*">> >>},
     excludes : {<<>>, << <<"*", ".", "t">> >>},
     allow_ext : {<<>>, << <<"z">>, <<"T">> >>},
     deny_ext : {<<>>, << <<"U">> >>},
     has_min_size : BOOLEAN, min_size : {2},
     has_max_size : BOOLEAN, max_size : {2},
     has_newer : BOOLEAN, newer_than : {2},
     has_older : BOOLEAN, older_than : {2}]

\* a category that is not configured holds the value memset gave it
FilterPolicy(c) ==
    [c EXCEPT !.min_size = IF c.has_min_size THEN @ ELSE 0,
              !.max_size = IF c.has_max_size THEN @ ELSE 0,
              !.newer_than = IF c.has_newer THEN @ ELSE 0,
              !.older_than = IF c.has_older THEN @ ELSE 0]

FilterOptions(c) ==
    [src |-> SRC, dst |-> DstOutside, threads |-> 1, mode |-> MODE_RENAME,
     min_depth |-> 0, max_depth |-> -1, dry_run |-> FALSE,
     preserve_times |-> TRUE, include_symlinks |-> FALSE,
     prune_empty_dirs |-> FALSE] @@ FilterPolicy(c)

NameB == <<"b">>
Bytes(n) == [i \in 1..n |-> "n"]

FilterFs(dir, name, size, mt) ==
    (SRC :> Dir(SRC)) @@ (DirX :> Dir(DirX)) @@ (DstOutside :> Dir(DstOutside))
    @@ (path_join(SRC, NameB) :> File(path_join(SRC, NameB), Bytes(2), 2))
    @@ (path_join(dir, name) :> File(path_join(dir, name), Bytes(size), mt))

FilterInit ==
    /\ \E c \in FilterCombinations : opt = FilterOptions(c)
    /\ xdev = FALSE
    /\ fault = "none"
    /\ \E dir \in {SRC, DirX}, name \in FilterNames,
          size \in 1..MaxSize, mt \in 1..MaxTime :
          fs = FilterFs(dir, name, size, mt)
    /\ fs0 = fs
    /\ stats_mx = 0
    /\ reg = [w \in Workers |-> NoReg]
    /\ total = [w \in Workers |-> 0]
    /\ mainpc = "spawn"
    /\ wstack = <<>>
    /\ q = [items |-> <<>>, done |-> FALSE]
    /\ name_mx = 0
    /\ wpc = [w \in Workers |-> IF w = 1 THEN "pop" ELSE "unborn"]
    /\ job = [w \in Workers |-> NoJob]
    /\ target = [w \in Workers |-> <<>>]
    /\ nsuf = [w \in Workers |-> 0]
    /\ flags = [w \in Workers |-> NoFlags]
    /\ rc = [w \in Workers |-> 0]
    /\ outfd = [w \in Workers |-> <<>>]
    /\ stats = [moved |-> 0, skipped |-> 0, failed |-> 0, bytes_copied |-> 0]
    /\ pushed = <<>>
    /\ popped = <<>>
    /\ allocs = {}
    /\ exitStatus = -1

FilterNext == BeginWalk \/ WalkEntry \/ WalkReturn

FilterSpec == FilterInit /\ [][FilterNext]_vars

\* the text s in lower case
Lower(s) == [i \in 1..Len(s) |-> tolower(s[i])]

\* the predicates of the categories for the file at p of the tree at the
\* start; the extension of a file is what follows the last dot of ExtOfName
IncludeHolds(o, p) ==
    o.includes = <<>> \/ \E i \in 1..Len(o.includes) : fnmatch(o.includes[i], RelOf(p), TRUE)
ExcludeHolds(o, p) ==
    ~\E i \in 1..Len(o.excludes) : fnmatch(o.excludes[i], RelOf(p), TRUE)
AllowHolds(o, p) ==
    \/ o.allow_ext = <<>>
    \/ /\ ExtOfName(basename_const(p)) # <<>>
       /\ \E i \in 1..Len(o.allow_ext) :
             Lower(o.allow_ext[i]) = Lower(Tail(ExtOfName(basename_const(p))))
DenyHolds(o, p) ==
    ~(/\ ExtOfName(basename_const(p)) # <<>>
      /\ \E i \in 1..Len(o.deny_ext) :
            Lower(o.deny_ext[i]) = Lower(Tail(ExtOfName(basename_const(p)))))
SizeHolds(o, p) ==
    /\ o.has_min_size => o.min_size <= Size(fs0[p])
    /\ o.has_max_size => Size(fs0[p]) <= o.max_size
TimeHolds(o, p) ==
    /\ o.has_newer => fs0[p].mtime >= o.newer_than
    /\ o.has_older => fs0[p].mtime <= o.older_than

AllHold(o, p) ==
    /\ IncludeHolds(o, p) /\ ExcludeHolds(o, p)
    /\ AllowHolds(o, p) /\ DenyHolds(o, p)
    /\ SizeHolds(o, p) /\ TimeHolds(o, p)

\* the regular files of the source tree at the start
FilesAtStart ==
    {p \in DOMAIN fs0 : fs0[p].kind = "file" /\ IsPrefix(SRC \o <<"/">>, p)}

(* C24: the walker enqueues a file only if every configured predicate holds
   for it, and when the walk has returned it has enqueued exactly the files
   for which all of them hold, whatever it evaluated before; without any
   category configured every file is enqueued. *)
C24_AcceptsIffAllPredicatesHold ==
    /\ \A p \in PushedSrcs : AllHold(opt, p)
    /\ mainpc = "finish" =>
          /\ PushedSrcs = {p \in FilesAtStart : AllHold(opt, p)}
          /\ FilterOf(opt) = NoFilter => PushedSrcs = FilesAtStart

\* with an include glob, an allow list, a minimum size and an older-than
\* bound configured, s/x/a.t of two bytes and time 2 has been enqueued: T of
\* the allow list equals its extension t, and both bounds are met with
\* equality
C24_Witness ==
    /\ mainpc = "finish"
    /\ opt.includes # <<>> /\ opt.allow_ext # <<>>
    /\ opt.has_min_size /\ opt.has_older
    /\ PushedSrcs = {path_join(DirX, <<"a", ".", "t">>)}
    /\ Size(fs0[path_join(DirX, <<"a", ".", "t">>)]) = opt.min_size
    /\ fs0[path_join(DirX, <<"a", ".", "t">>)].mtime = opt.older_than

\* the jobs that have been counted as moved, skipped or failed
Outcomes == stats.moved + stats.skipped + stats.failed

(* C25: moved + skipped + failed never exceeds the number of jobs popped; a
   step changes at most one of the three counters, by one, and it is the
   step in which a worker lets go of its job; once every worker has exited,
   the three counters add up to the number of jobs the walker enqueued. *)
C25_OneOutcomePerJob ==
    /\ [](/\ Outcomes <= Len(popped)
          /\ (\A w \in 1..nth : wpc[w] = "exit") =>
                Outcomes = Len(pushed))
    /\ [][<<stats.moved, stats.skipped, stats.failed>>
              # <<stats'.moved, stats'.skipped, stats'.failed>> =>
            /\ Outcomes' = Outcomes + 1
            /\ \E c \in {"moved", "skipped", "failed"} :
                  /\ stats'[c] = stats[c] + 1
                  /\ \A d \in {"moved", "skipped", "failed"} \ {c} :
                        stats'[d] = stats[d]
            /\ \E w \in Workers :
                  /\ job[w] # NoJob /\ job'[w] = NoJob
                  /\ wpc'[w] = "pop"
                  /\ \A v \in Workers \ {w} : job'[v] = job[v]]_vars
    /\ [][\A w \in Workers :
            (job[w] # NoJob /\ job'[w] = NoJob) => Outcomes' = Outcomes + 1]_vars

\* two workers have exited after a run in skip mode in which jobs were
\* skipped and a job was moved
C25_Witness ==
    /\ opt.threads = MaxThreads
    /\ \A w \in 1..nth : wpc[w] = "exit"
    /\ opt.mode = MODE_SKIP
    /\ stats.skipped >= 1 /\ stats.moved >= 1
    /\ Len(pushed) >= 2

====
